---- MODULE Spec2Model ----
(***************************************************************************)
(* Model of server.py: the ticket-detail cache (cache.json), its TTL       *)
(* freshness test, the time-window projection and the custom-field         *)
(* resolver that the cache's fetch path calls.                             *)
(*                                                                         *)
(* Time is counted in ticks; an hour is TicksPerHour ticks.  A timestamp   *)
(* string (ISO-8601) is a record [wall, tz]: the wall-clock reading and    *)
(* the zone designator; two timestamps compare by the instant they name.   *)
(* Python's None, where a string is expected, is the string PyNone.        *)
(***************************************************************************)
EXTENDS Integers, Sequences, FiniteSets, TLC

\* ------------------------------------------------------------------ bounds

TicksPerHour == 2
MaxNow == 3

\* ------------------------------------------------------- program constants

CACHE_EXPIRY_HOURS == 1
HoursPerDay == 24

TicksPerDay == HoursPerDay * TicksPerHour

PyNone == "<None>"

\* ---------------------------------------------------------------- datetime

\* The UTC offset, in hours, that a zone designator names.
TzOffsetHours(tz) ==
  CASE tz = "Z"      -> 0
    [] tz = "+00:00" -> 0
    [] tz = "+01:00" -> 1
    [] tz = "-01:00" -> 0 - 1
    [] OTHER         -> 0

\* str(raw).replace('Z', '+00:00')
ReplaceZ(iso) == [wall |-> iso.wall, tz |-> IF iso.tz = "Z" THEN "+00:00" ELSE iso.tz]

\* datetime.fromisoformat: an aware datetime, kept as wall reading and offset.
fromisoformat(iso) == [wall |-> iso.wall, off |-> TzOffsetHours(iso.tz)]

\* datetime.isoformat of an aware datetime: the offset is printed as +HH:MM.
isoformat(dt) ==
  [wall |-> dt.wall,
   tz   |-> CASE dt.off = 0     -> "+00:00"
              [] dt.off = 1     -> "+01:00"
              [] dt.off = 0 - 1 -> "-01:00"
              [] OTHER          -> "+00:00"]

\* strftime('%Y-%m-%d %H:%M'): the wall reading alone, the zone is dropped.
strftime(dt) == dt.wall

\* The instant an aware datetime names: comparisons of aware datetimes are
\* comparisons of instants.
Instant(dt) == dt.wall - dt.off * TicksPerHour

\* datetime.now(timezone.utc) when the clock reads t.
datetime_now_utc(t) == [wall |-> t, off |-> 0]

\* timedelta(hours=h), timedelta(days=d), in ticks.
timedelta_hours(h) == h * TicksPerHour
timedelta_days(d) == d * TicksPerDay

\* -------------------------------------------------------- is_cache_fresh

is_cache_fresh_inverted_mutant(cached_data, hours, t) ==
  IF DOMAIN cached_data = {} \/ "cached_at" \notin DOMAIN cached_data
  THEN FALSE
  ELSE LET cached_at == fromisoformat(cached_data.cached_at)
           age == Instant(datetime_now_utc(t)) - Instant(cached_at)
       IN  age > timedelta_hours(hours)

is_cache_fresh_stale_at_ttl_mutant(cached_data, hours, t) ==
  IF DOMAIN cached_data = {} \/ "cached_at" \notin DOMAIN cached_data
  THEN FALSE
  ELSE LET cached_at == fromisoformat(cached_data.cached_at)
           age == Instant(datetime_now_utc(t)) - Instant(cached_at)
       IN  age <= timedelta_hours(hours)

\* server.py is_cache_fresh(cached_data, hours) with the clock reading t.
is_cache_fresh(cached_data, hours, t) ==
  IF DOMAIN cached_data = {} \/ "cached_at" \notin DOMAIN cached_data
  THEN FALSE
  ELSE LET cached_at == fromisoformat(cached_data.cached_at)
           age == Instant(datetime_now_utc(t)) - Instant(cached_at)
       IN  age < timedelta_hours(hours)

\* ------------------------------------------- filter_ticket_data_by_date

\* The dict literal built for a kept change (lines 190-197).
CopyChange(change) ==
  [date |-> change.date, date_iso |-> change.date_iso, author |-> change.author,
   field |-> change.field, from |-> change.from, to |-> change.to]

\* The dict literal built for a kept comment (lines 203-208).
CopyComment(comment) ==
  [date |-> comment.date, date_iso |-> comment.date_iso,
   author |-> comment.author, body |-> comment.body]

\* full_data.get(name, []).
GetList(full_data, name) ==
  IF name \in DOMAIN full_data THEN full_data[name] ELSE <<>>

RECURSIVE FilterChanges(_, _)
\* The loop of lines 187-197: the entries at or after the cutoff, in order.
FilterChanges(changes, cutoff_date) ==
  IF changes = <<>> THEN <<>>
  ELSE LET change == Head(changes)
           change_date == fromisoformat(change.date_iso)
           rest == FilterChanges(Tail(changes), cutoff_date)
       IN  IF Instant(change_date) >= cutoff_date
           THEN <<CopyChange(change)>> \o rest
           ELSE rest

RECURSIVE FilterComments(_, _)
\* The loop of lines 200-208.
FilterComments(comments, cutoff_date) ==
  IF comments = <<>> THEN <<>>
  ELSE LET comment == Head(comments)
           comment_date == fromisoformat(comment.date_iso)
           rest == FilterComments(Tail(comments), cutoff_date)
       IN  IF Instant(comment_date) >= cutoff_date
           THEN <<CopyComment(comment)>> \o rest
           ELSE rest

\* d with d[name] set to v (a dict assignment).
SetItem(d, name, v) == [k \in DOMAIN d \cup {name} |-> IF k = name THEN v ELSE d[k]]

filter_no_copy_mutant(full_data, days, t) ==
  LET cutoff_date == Instant(datetime_now_utc(t)) - timedelta_days(days)
      filtered == SetItem(SetItem(full_data,
                    "changes", FilterChanges(GetList(full_data, "changes"), cutoff_date)),
                    "comments", FilterComments(GetList(full_data, "comments"), cutoff_date))
  IN  [full_data |-> filtered, filtered_data |-> filtered]

filter_strict_cutoff_mutant(full_data, days, t) ==
  LET cutoff_date == Instant(datetime_now_utc(t)) - timedelta_days(days) + 1
  IN  [full_data |-> full_data,
       filtered_data |->
         SetItem(SetItem(full_data,
           "changes", FilterChanges(GetList(full_data, "changes"), cutoff_date)),
           "comments", FilterComments(GetList(full_data, "comments"), cutoff_date))]

filter_cutoff_sign_mutant(full_data, days, t) ==
  LET cutoff_date == Instant(datetime_now_utc(t)) - timedelta_days(7) + timedelta_days(days)
  IN  [full_data |-> full_data,
       filtered_data |->
         SetItem(SetItem(full_data,
           "changes", FilterChanges(GetList(full_data, "changes"), cutoff_date)),
           "comments", FilterComments(GetList(full_data, "comments"), cutoff_date))]

filter_skip_first_mutant(full_data, days, t) ==
  LET cutoff_date == Instant(datetime_now_utc(t)) - timedelta_days(days)
      rest(l) == IF l = <<>> THEN <<>> ELSE Tail(l)
  IN  [full_data |-> full_data,
       filtered_data |->
         SetItem(SetItem(full_data,
           "changes", FilterChanges(rest(GetList(full_data, "changes")), cutoff_date)),
           "comments", FilterComments(rest(GetList(full_data, "comments")), cutoff_date))]

\* server.py filter_ticket_data_by_date(full_data, days) with the clock
\* reading t.  The result names the argument object as the call leaves it
\* (full_data) and the returned dict (filtered_data): the function works on
\* full_data.copy() and on fresh lists, so the argument is left as it was.
filter_ticket_data_by_date(full_data, days, t) ==
  LET cutoff_date == Instant(datetime_now_utc(t)) - timedelta_days(days)
  IN  [full_data |-> full_data,
       filtered_data |->
         SetItem(SetItem(full_data,
           "changes", FilterChanges(GetList(full_data, "changes"), cutoff_date)),
           "comments", FilterComments(GetList(full_data, "comments"), cutoff_date))]

\* ------------------------------------------------------------ str.lower

\* str.lower() on the field names that occur.
lower(s) ==
  CASE s = "Story point estimate" -> "story point estimate"
    [] s = "Story Points"         -> "story points"
    [] s = "Story points"         -> "story points"
    [] s = "Points"               -> "points"
    [] s = "Estimate"             -> "estimate"
    [] s = "Effort"               -> "effort"
    [] s = "T-Shirt Size"         -> "t-shirt size"
    [] s = "Size"                 -> "size"
    [] s = "Sprint"               -> "sprint"
    [] s = "Sprints"              -> "sprints"
    [] s = "Active Sprint"        -> "active sprint"
    [] s = "Active Sprints"       -> "active sprints"
    [] s = "Epic Link"            -> "epic link"
    [] s = "Parent Link"          -> "parent link"
    [] s = "Summary"              -> "summary"
    [] s = "ACTIVE"               -> "active"
    [] s = "CLOSED"               -> "closed"
    [] s = "Active"               -> "active"
    [] s = "Epic"                 -> "epic"
    [] s = "EPIC"                 -> "epic"
    [] s = "Story"                -> "story"
    [] s = "In Review"            -> "in review"
    [] s = "Code Review"          -> "code review"
    [] s = "In Progress"          -> "in progress"
    [] s = "Done"                 -> "done"
    [] s = "Unknown"              -> "unknown"
    [] OTHER                      -> s

\* ------------------------------------------------------ get_custom_field_id

\* Truth value of a field id or name: None and '' are false.
Truthy(s) == s # PyNone /\ s # ""

\* dict.get(name) on a dict of strings: None when absent.
DictGet(d, name) == IF name \in DOMAIN d THEN d[name] ELSE PyNone

RECURSIVE PopulateFieldCache(_, _)
\* The loop of lines 364-369 over the definitions jira_client.fields() returned.
PopulateFieldCache(cfc, fields) ==
  IF fields = <<>> THEN cfc
  ELSE LET field == Head(fields)
           name == lower(IF "name" \in DOMAIN field THEN field.name ELSE "")
           field_id == DictGet(field, "id")
           cfc1 == IF "custom" \in DOMAIN field /\ field.custom
                      /\ Truthy(name) /\ Truthy(field_id)
                   THEN SetItem(cfc, name, field_id)
                   ELSE cfc
       IN  PopulateFieldCache(cfc1, Tail(fields))

\* server.py get_custom_field_id(field_name).  cfc is custom_field_cache as
\* the call finds it; jira is the tracker as the call finds it: whether the
\* client exists (client), whether jira_client.fields() answers (fields_up)
\* and the definitions it answers with (fields).  The result holds the map as
\* the call leaves it, the value returned, and the number of bulk fetches
\* the call attempted.
get_custom_field_id(cfc, field_name, jira) ==
  IF ~jira.client
  THEN [cfc |-> cfc, value |-> PyNone, fetches |-> 0]
  ELSE IF field_name \in DOMAIN cfc
  THEN [cfc |-> cfc, value |-> cfc[field_name], fetches |-> 0]
  ELSE IF DOMAIN cfc = {}
  THEN LET cfc1 == IF jira.fields_up THEN PopulateFieldCache(cfc, jira.fields) ELSE cfc
       IN  [cfc |-> cfc1, value |-> DictGet(cfc1, lower(field_name)), fetches |-> 1]
  ELSE [cfc |-> cfc, value |-> DictGet(cfc, lower(field_name)), fetches |-> 0]

RECURSIVE FirstResolved(_, _, _, _)
\* The loops of lines 396-401 and 419-424: the first name that resolves.
FirstResolved(cfc, names, jira, fetches) ==
  IF names = <<>> THEN [cfc |-> cfc, value |-> PyNone, fetches |-> fetches]
  ELSE LET r == get_custom_field_id(cfc, Head(names), jira)
       IN  IF Truthy(r.value)
           THEN [cfc |-> r.cfc, value |-> r.value, fetches |-> fetches + r.fetches]
           ELSE FirstResolved(r.cfc, Tail(names), jira, fetches + r.fetches)

estimation_common_names ==
  <<"Story point estimate", "Story Points", "Points", "Estimate",
    "Story points", "Effort", "T-Shirt Size", "Size">>

sprint_common_names == <<"Sprint", "Sprints", "Active Sprint", "Active Sprints">>

get_estimation_field_id_override_last_mutant(cfc, config, jira) ==
  FirstResolved(cfc,
    estimation_common_names
      \o (IF Truthy(config.estimation_field) THEN <<config.estimation_field>> ELSE <<>>),
    jira, 0)

\* server.py get_estimation_field_id(): the override first, then the names.
get_estimation_field_id(cfc, config, jira) ==
  FirstResolved(cfc,
    (IF Truthy(config.estimation_field) THEN <<config.estimation_field>> ELSE <<>>)
      \o estimation_common_names,
    jira, 0)

\* server.py get_sprint_field_id().
get_sprint_field_id(cfc, config, jira) ==
  FirstResolved(cfc,
    (IF Truthy(config.sprint_field) THEN <<config.sprint_field>> ELSE <<>>)
      \o sprint_common_names,
    jira, 0)

\* ------------------------------------- get_cached_ticket_details: normalise

\* An attribute that holds an object is None when it is the empty function.
NoneObj == <<>>
IsSet(obj) == DOMAIN obj # {}

\* getattr(obj, name, default).
GetAttr(obj, name, default) == IF name \in DOMAIN obj THEN obj[name] ELSE default

\* x.name if x and hasattr(x, 'name') else default.
AttrOr(obj, name, default) ==
  IF IsSet(obj) /\ name \in DOMAIN obj THEN obj[name] ELSE default

\* The value of an absent estimation field.
EstNone == [type |-> "none"]

RECURSIVE SprintSearch(_, _)
\* re.search(r'<key>=([^,\]]+)', s) on a legacy sprint string, kept as the
\* key=value pairs between its brackets: the first non-empty value of key.
SprintSearch(pairs, key) ==
  IF pairs = <<>> THEN PyNone
  ELSE IF Head(pairs)[1] = key /\ Head(pairs)[2] # "" THEN Head(pairs)[2]
  ELSE SprintSearch(Tail(pairs), key)

\* Lines 268-288: sprint and sprint_state from the last sprint of the field.
SprintOf(fields, sprint_field_id) ==
  LET none == [sprint |-> PyNone, sprint_state |-> PyNone]
      sprint_data == GetAttr(fields, sprint_field_id, <<>>)
  IN  IF ~Truthy(sprint_field_id) \/ sprint_data = <<>> THEN none
      ELSE LET last_sprint == sprint_data[Len(sprint_data)]
           IN  IF last_sprint.type = "str"
               THEN LET name == SprintSearch(last_sprint.pairs, "name")
                        state == SprintSearch(last_sprint.pairs, "state")
                    IN  [sprint |-> name,
                         sprint_state |-> IF state # PyNone THEN lower(state) ELSE PyNone]
               ELSE IF last_sprint.type = "dict"
               THEN [sprint |-> GetAttr(last_sprint.dict, "name", "Unknown Sprint"),
                     sprint_state |->
                       lower(LET s == GetAttr(last_sprint.dict, "state", PyNone)
                             IN  IF Truthy(s) THEN s ELSE "")]
               ELSE none

\* from_val if from_val else 'None'.
OrNone(s) == IF Truthy(s) THEN s ELSE "None"

RECURSIVE ItemsToChanges(_, _, _)
\* Lines 303-314: one change per item of a history event.
ItemsToChanges(items, created, author) ==
  IF items = <<>> THEN <<>>
  ELSE LET item == Head(items)
       IN  <<[date |-> strftime(created),
              date_iso |-> isoformat(created),
              author |-> author,
              field |-> GetAttr(item, "field", ""),
              from |-> OrNone(GetAttr(item, "fromString", "None")),
              to |-> OrNone(GetAttr(item, "toString", "None"))]>>
           \o ItemsToChanges(Tail(items), created, author)

RECURSIVE HistoriesToChanges(_)
\* Lines 293-314: an event with no creation time is skipped.
HistoriesToChanges(histories) ==
  IF histories = <<>> THEN <<>>
  ELSE LET history == Head(histories)
           rest == HistoriesToChanges(Tail(histories))
       IN  IF "created" \notin DOMAIN history THEN rest
           ELSE LET created == fromisoformat(ReplaceZ(history.created))
                    author == AttrOr(GetAttr(history, "author", NoneObj),
                                     "displayName", "Unknown")
                IN  ItemsToChanges(GetAttr(history, "items", <<>>), created, author)
                    \o rest

RECURSIVE CommentsToComments(_)
\* Lines 320-334.
CommentsToComments(comments) ==
  IF comments = <<>> THEN <<>>
  ELSE LET comment == Head(comments)
           rest == CommentsToComments(Tail(comments))
       IN  IF "created" \notin DOMAIN comment THEN rest
           ELSE LET created == fromisoformat(ReplaceZ(comment.created))
                    author == AttrOr(GetAttr(comment, "author", NoneObj),
                                     "displayName", "Unknown")
                IN  <<[date |-> strftime(created),
                       date_iso |-> isoformat(created),
                       author |-> author,
                       body |-> GetAttr(comment, "body", "")]>> \o rest

\* Lines 237-334: ticket_details built from the fetched issue, given the
\* field ids the resolver returned.
NormalizeDetails(ticket_key, issue, estimation_field_id, sprint_field_id) ==
  LET fields == issue.fields
      status == GetAttr(fields, "status", NoneObj)
      assignee == GetAttr(fields, "assignee", NoneObj)
      priority == GetAttr(fields, "priority", NoneObj)
      estimation_value ==
        IF Truthy(estimation_field_id)
        THEN GetAttr(fields, estimation_field_id, EstNone)
        ELSE EstNone
      sp == SprintOf(fields, sprint_field_id)
      changelog == GetAttr(issue, "changelog", NoneObj)
      comment_data == GetAttr(fields, "comment", NoneObj)
  IN  [key |-> ticket_key,
       summary |-> GetAttr(fields, "summary", "No summary"),
       status |-> AttrOr(status, "name", "Unknown"),
       assignee |-> AttrOr(assignee, "displayName", "Unassigned"),
       priority |-> AttrOr(priority, "name", "None"),
       description |-> GetAttr(fields, "description", ""),
       estimation |-> estimation_value,
       sprint |-> sp.sprint,
       sprint_state |-> sp.sprint_state,
       changes |-> IF IsSet(changelog)
                   THEN HistoriesToChanges(GetAttr(changelog, "histories", <<>>))
                   ELSE <<>>,
       comments |-> IF IsSet(comment_data)
                    THEN CommentsToComments(GetAttr(comment_data, "comments", <<>>))
                    ELSE <<>>]

\* ------------------------------------------------------------ the tracker

Keys == {"K1", "K2"}
Procs == {1, 2}
DaysSet == {0, 1, 7}

\* A timestamp the tracker sends for the instant t, written in zone tz.
Stamp(t, tz) == [wall |-> t + TzOffsetHours(tz) * TicksPerHour, tz |-> tz]

\* Instants around the window cutoffs.
WeekAgo == 0 - 7 * TicksPerDay
DayAgo == 0 - TicksPerDay

\* The field definitions jira_client.fields() may answer with.
FieldsWithCustom ==
  <<[id |-> "summary", name |-> "Summary", custom |-> FALSE],
    [id |-> "customfield_10016", name |-> "Story Points", custom |-> TRUE],
    [id |-> "customfield_10020", name |-> "Sprint", custom |-> TRUE],
    [id |-> "size", name |-> "Size", custom |-> FALSE]>>

FieldsNoCustom ==
  <<[id |-> "summary", name |-> "Summary", custom |-> FALSE]>>

TrackerFieldSets == {FieldsWithCustom, FieldsNoCustom}

\* jira_config: the two override names (lines 24-25).
JiraConfigs == {[estimation_field |-> "", sprint_field |-> ""]}

\* Raw issues jira_client.issue(key, expand='changelog,renderedFields') may
\* answer with.  An absent attribute is an absent field of the record.
IssueFull ==
  [fields |->
     [summary |-> "Fix login",
      status |-> [name |-> "In Review"],
      assignee |-> [displayName |-> "Ann"],
      priority |-> [name |-> "High"],
      description |-> "text",
      customfield_10016 |-> [type |-> "float", twice |-> 10],
      customfield_10020 |->
        <<[type |-> "str", pairs |-> <<<<"id", "1">>, <<"state", "CLOSED">>, <<"name", "Sprint 6">>>>],
          [type |-> "str", pairs |-> <<<<"id", "2">>, <<"state", "ACTIVE">>, <<"name", "Sprint 7">>>>]>>,
      comment |->
        [comments |->
           <<[created |-> Stamp(DayAgo + 1, "+01:00"), author |-> [displayName |-> "Bob"], body |-> "c1"],
             [created |-> Stamp(WeekAgo - 1, "Z"), author |-> [displayName |-> "Ann"], body |-> "c2"],
             [created |-> Stamp(0, "+00:00"), body |-> "c3"]>>]],
   changelog |->
     [histories |->
        <<[created |-> Stamp(WeekAgo - 1, "Z"), author |-> [displayName |-> "Ann"],
           items |-> <<[field |-> "status", fromString |-> "Open", toString |-> "In Progress"]>>],
          [created |-> Stamp(WeekAgo, "+01:00"), author |-> [displayName |-> "Bob"],
           items |-> <<[field |-> "status", fromString |-> "In Progress", toString |-> "In Review"],
                       [field |-> "assignee", fromString |-> PyNone, toString |-> "Ann"]>>],
          [author |-> [displayName |-> "Bob"],
           items |-> <<[field |-> "priority", fromString |-> "Low", toString |-> "High"]>>],
          [created |-> Stamp(0, "Z"),
           items |-> <<[field |-> "labels"]>>]>>]]

IssueSparse ==
  [fields |->
     [status |-> NoneObj,
      priority |-> [name |-> "Low"],
      description |-> PyNone,
      customfield_10016 |-> [type |-> "str", str |-> "L"],
      customfield_10020 |-> <<[type |-> "dict", dict |-> [name |-> "Sprint 7", state |-> "Active"]]>>,
      comment |-> NoneObj],
   changelog |->
     [histories |->
        <<[created |-> Stamp(DayAgo, "Z"), author |-> [displayName |-> "Ann"],
           items |-> <<[field |-> "status", fromString |-> "Open", toString |-> "Done"]>>]>>]]

\* The estimation field holds an option object of the client library, which
\* json.dump cannot encode.
IssueOption ==
  [fields |->
     [summary |-> "Resize",
      status |-> [name |-> "Open"],
      customfield_10016 |-> [type |-> "obj", repr |-> "<JIRA CustomFieldOption>"],
      comment |->
        [comments |->
           <<[created |-> Stamp(DayAgo, "Z"), author |-> [displayName |-> "Ann"], body |-> "c1"]>>]]]

RawIssues == {IssueFull, IssueSparse, IssueOption}

\* ------------------------------------------------------------- cache.json

\* Whether json.dump can encode a ticket record: every value is a string, a
\* number, None, a list or a dict, except an estimation that is an object of
\* the client library.
JsonSerializable(cache) ==
  \A k \in DOMAIN cache :
    "data" \in DOMAIN cache[k] => cache[k].data.estimation.type # "obj"

VARIABLES
  now,                \* the clock (datetime.now), in ticks
  cache_file,         \* cache.json: the mapping last written in full
  file_ok,            \* FALSE when cache.json holds a truncated dump
  custom_field_cache, \* the module-level field-name map
  jira_client,        \* whether initialize_jira_client() gave a client
  jira_config,        \* the override names
  tracker_fields,     \* the field definitions the tracker holds
  pc,                 \* per request: idle, fetching, storing, done, failed
  ticket_key,         \* per request: the arguments
  days,
  cache,              \* per request: the local cache (line 214)
  issue,              \* per request: the raw issue fetched (line 233)
  ticket_details,     \* per request: the record built (line 244)
  result,             \* per request: the value returned, or the error raised
  issue_fetches,      \* per request: calls of jira_client.issue made
  field_fetches,      \* per request: calls of jira_client.fields made
  found,              \* per request: the key's entry as the call loaded it
  save_outcome,       \* per request: how save_cache ended
  probe               \* inputs and results of the functions applied alone

vars == <<now, cache_file, file_ok, custom_field_cache, jira_client, jira_config,
          tracker_fields, pc, ticket_key, days, cache, issue, ticket_details,
          result, issue_fetches, field_fetches, found, save_outcome, probe>>

load_cache_ignores_failure_mutant == cache_file

\* server.py load_cache(): {} when the file is missing or cannot be parsed.
load_cache == IF file_ok THEN cache_file ELSE <<>>

save_cache_drops_write_mutant(c, disk) ==
  IF disk = "open_fails"
  THEN [cache_file |-> cache_file, file_ok |-> file_ok, outcome |-> "open_failed"]
  ELSE IF disk = "write_fails" \/ ~JsonSerializable(c)
  THEN [cache_file |-> <<>>, file_ok |-> FALSE, outcome |-> "write_failed"]
  ELSE [cache_file |-> cache_file, file_ok |-> file_ok, outcome |-> "ok"]

\* server.py save_cache(cache): what the file holds afterwards.  disk is
\* what the file system does: "ok", "open_fails" (open raises, the file is
\* untouched) or "write_fails" (the dump stops midway).  open(..., 'w')
\* truncates first, so a dump that stops midway, the disk failing or a value
\* json cannot encode, leaves a file that no longer parses.
save_cache(c, disk) ==
  IF disk = "open_fails"
  THEN [cache_file |-> cache_file, file_ok |-> file_ok, outcome |-> "open_failed"]
  ELSE IF disk = "write_fails" \/ ~JsonSerializable(c)
  THEN [cache_file |-> <<>>, file_ok |-> FALSE, outcome |-> "write_failed"]
  ELSE [cache_file |-> c, file_ok |-> TRUE, outcome |-> "ok"]

\* What a call finds for key in the mapping c it loaded when the clock
\* reads t: no entry, an entry younger than the TTL, or an older one.
Found(c, key, t) ==
  IF key \notin DOMAIN c THEN "absent"
  ELSE IF "cached_at" \in DOMAIN c[key]
          /\ t - (c[key].cached_at.wall
                   - TzOffsetHours(c[key].cached_at.tz) * TicksPerHour)
               < CACHE_EXPIRY_HOURS * TicksPerHour
       THEN "fresh"
       ELSE "stale"

NoProbe == [op |-> "none"]

\* The program's state with no request made yet.
Start ==
  /\ now = 0
  /\ file_ok = TRUE
  /\ custom_field_cache = <<>>
  /\ jira_client \in BOOLEAN
  /\ jira_config \in JiraConfigs
  /\ tracker_fields \in TrackerFieldSets
  /\ pc = [p \in Procs |-> "idle"]
  /\ ticket_key = [p \in Procs |-> ""]
  /\ days = [p \in Procs |-> 0]
  /\ cache = [p \in Procs |-> <<>>]
  /\ issue = [p \in Procs |-> <<>>]
  /\ ticket_details = [p \in Procs |-> <<>>]
  /\ result = [p \in Procs |-> <<>>]
  /\ issue_fetches = [p \in Procs |-> 0]
  /\ field_fetches = [p \in Procs |-> 0]
  /\ found = [p \in Procs |-> "absent"]
  /\ save_outcome = [p \in Procs |-> "none"]

Init ==
  /\ Start
  /\ cache_file = <<>>
  /\ probe = NoProbe

\* The clock advances.
Tick ==
  /\ now < MaxNow
  /\ now' = now + 1
  /\ UNCHANGED <<cache_file, file_ok, custom_field_cache, jira_client, jira_config,
                 tracker_fields, pc, ticket_key, days, cache, issue, ticket_details,
                 result, issue_fetches, field_fetches, found, save_outcome, probe>>

\* get_cached_ticket_details(key, d), lines 212-226: load the cache; on a
\* fresh entry return its projection, otherwise go on to fetch.
Lookup(p, key, d) ==
  /\ pc[p] \in {"idle", "done", "failed"}
  /\ LET c == load_cache
         hit == key \in DOMAIN c /\ is_cache_fresh(c[key], CACHE_EXPIRY_HOURS, now)
     IN  /\ ticket_key' = [ticket_key EXCEPT ![p] = key]
         /\ days' = [days EXCEPT ![p] = d]
         /\ found' = [found EXCEPT ![p] = Found(c, key, now)]
         /\ issue_fetches' = [issue_fetches EXCEPT ![p] = 0]
         /\ field_fetches' = [field_fetches EXCEPT ![p] = 0]
         /\ save_outcome' = [save_outcome EXCEPT ![p] = "none"]
         /\ issue' = [issue EXCEPT ![p] = <<>>]
         /\ ticket_details' = [ticket_details EXCEPT ![p] = <<>>]
         /\ IF hit
            THEN LET f == filter_ticket_data_by_date(c[key].data, d, now)
                 IN  /\ cache' = [cache EXCEPT ![p] = SetItem(c, key, SetItem(c[key], "data", f.full_data))]
                     /\ result' = [result EXCEPT ![p] = SetItem(f.filtered_data, "_cache_hit", TRUE)]
                     /\ pc' = [pc EXCEPT ![p] = "done"]
            ELSE /\ cache' = [cache EXCEPT ![p] = c]
                 /\ result' = [result EXCEPT ![p] = <<>>]
                 /\ pc' = [pc EXCEPT ![p] = "fetching"]
  /\ UNCHANGED <<now, cache_file, file_ok, custom_field_cache, jira_client,
                 jira_config, tracker_fields, probe>>

FetchFails_caches_error_mutant(p) ==
  /\ pc[p] = "fetching"
  /\ pc' = [pc EXCEPT ![p] = "failed"]
  /\ result' = [result EXCEPT ![p] =
       [error |-> IF jira_client THEN "fetch failed" ELSE "JIRA client not configured"]]
  /\ issue_fetches' = [issue_fetches EXCEPT ![p] = IF jira_client THEN 1 ELSE 0]
  /\ cache_file' = SetItem(cache[p], ticket_key[p], [cached_at |-> isoformat(datetime_now_utc(now))])
  /\ file_ok' = TRUE
  /\ UNCHANGED <<now, custom_field_cache, jira_client, jira_config,
                 tracker_fields, ticket_key, days, cache, issue, ticket_details,
                 field_fetches, found, save_outcome, probe>>

FetchFails_retries_mutant(p) ==
  /\ pc[p] = "fetching"
  /\ pc' = [pc EXCEPT ![p] = "failed"]
  /\ result' = [result EXCEPT ![p] =
       [error |-> IF jira_client THEN "fetch failed" ELSE "JIRA client not configured"]]
  /\ issue_fetches' = [issue_fetches EXCEPT ![p] = IF jira_client THEN 2 ELSE 0]
  /\ UNCHANGED <<now, cache_file, file_ok, custom_field_cache, jira_client, jira_config,
                 tracker_fields, ticket_key, days, cache, issue, ticket_details,
                 field_fetches, found, save_outcome, probe>>

\* Lines 229-236, the client is missing or jira_client.issue raises: the
\* exception leaves get_cached_ticket_details.
FetchFails(p) ==
  /\ pc[p] = "fetching"
  /\ pc' = [pc EXCEPT ![p] = "failed"]
  /\ result' = [result EXCEPT ![p] =
       [error |-> IF jira_client THEN "fetch failed" ELSE "JIRA client not configured"]]
  /\ issue_fetches' = [issue_fetches EXCEPT ![p] = IF jira_client THEN 1 ELSE 0]
  /\ UNCHANGED <<now, cache_file, file_ok, custom_field_cache, jira_client, jira_config,
                 tracker_fields, ticket_key, days, cache, issue, ticket_details,
                 field_fetches, found, save_outcome, probe>>

\* Lines 229-334, the fetch answers with raw: resolve the estimation and
\* sprint fields (fields_up: whether jira_client.fields() answers now) and
\* build ticket_details.
FetchOk(p, raw, fields_up) ==
  /\ pc[p] = "fetching"
  /\ jira_client
  /\ LET jira == [client |-> jira_client, fields_up |-> fields_up, fields |-> tracker_fields]
         est == get_estimation_field_id(custom_field_cache, jira_config, jira)
         spr == get_sprint_field_id(est.cfc, jira_config, jira)
     IN  /\ custom_field_cache' = spr.cfc
         /\ field_fetches' = [field_fetches EXCEPT ![p] = est.fetches + spr.fetches]
         /\ ticket_details' = [ticket_details EXCEPT ![p] =
              NormalizeDetails(ticket_key[p], raw, est.value, spr.value)]
  /\ issue' = [issue EXCEPT ![p] = raw]
  /\ issue_fetches' = [issue_fetches EXCEPT ![p] = 1]
  /\ pc' = [pc EXCEPT ![p] = "storing"]
  /\ UNCHANGED <<now, cache_file, file_ok, jira_client, jira_config, tracker_fields,
                 ticket_key, days, cache, result, found, save_outcome, probe>>

UpdatedCache_merge_mutant(c, key, details, t) ==
  SetItem(c, key,
    [cached_at |-> isoformat(datetime_now_utc(t)),
     data |-> IF key \in DOMAIN c
              THEN SetItem(details, "changes", c[key].data.changes \o details.changes)
              ELSE details])

\* Lines 337-340: cache[cache_key] = {'cached_at': now, 'data': ticket_details}.
UpdatedCache(c, key, details, t) ==
  SetItem(c, key, [cached_at |-> isoformat(datetime_now_utc(t)), data |-> details])

Store_stores_projection_mutant(p, disk) ==
  /\ pc[p] = "storing"
  /\ LET f == filter_ticket_data_by_date(ticket_details[p], days[p], now)
         c == UpdatedCache(cache[p], ticket_key[p], f.filtered_data, now)
         saved == save_cache(c, disk)
     IN  /\ cache' = [cache EXCEPT ![p] = c]
         /\ cache_file' = saved.cache_file
         /\ file_ok' = saved.file_ok
         /\ save_outcome' = [save_outcome EXCEPT ![p] = saved.outcome]
         /\ ticket_details' = [ticket_details EXCEPT ![p] = f.full_data]
         /\ result' = [result EXCEPT ![p] = SetItem(f.filtered_data, "_cache_hit", FALSE)]
  /\ pc' = [pc EXCEPT ![p] = "done"]
  /\ UNCHANGED <<now, custom_field_cache, jira_client, jira_config, tracker_fields,
                 ticket_key, days, issue, issue_fetches, field_fetches, found, probe>>

\* Lines 336-346: put the full record in the local cache, save it, return
\* the projection.
Store(p, disk) ==
  /\ pc[p] = "storing"
  /\ LET c == UpdatedCache(cache[p], ticket_key[p], ticket_details[p], now)
         saved == save_cache(c, disk)
         f == filter_ticket_data_by_date(ticket_details[p], days[p], now)
     IN  /\ cache' = [cache EXCEPT ![p] = c]
         /\ cache_file' = saved.cache_file
         /\ file_ok' = saved.file_ok
         /\ save_outcome' = [save_outcome EXCEPT ![p] = saved.outcome]
         /\ ticket_details' = [ticket_details EXCEPT ![p] = f.full_data]
         /\ result' = [result EXCEPT ![p] = SetItem(f.filtered_data, "_cache_hit", FALSE)]
  /\ pc' = [pc EXCEPT ![p] = "done"]
  /\ UNCHANGED <<now, custom_field_cache, jira_client, jira_config, tracker_fields,
                 ticket_key, days, issue, issue_fetches, field_fetches, found, probe>>

DiskOutcomes == {"ok", "open_fails", "write_fails"}

\* The requests of the processes in P, each running from its call to its
\* return, asking for windows in D; with again, a process that has returned
\* makes further calls.
Serve(P, again, D) ==
  \/ Tick
  \/ \E p \in P, key \in Keys, d \in D :
       (again \/ pc[p] = "idle") /\ Lookup(p, key, d)
  \/ \E p \in P : FetchFails(p)
  \/ \E p \in P, raw \in RawIssues, fields_up \in BOOLEAN : FetchOk(p, raw, fields_up)
  \/ \E p \in P, disk \in DiskOutcomes : Store(p, disk)

\* Requests served one after another.
Next == Serve({1}, TRUE, DaysSet)

Spec == Init /\ [][Next]_vars

\* Requests of two callers served at the same time (the development server
\* runs threaded): their steps interleave at the calls that block.
NextConc == Serve(Procs, FALSE, {7})

\* An entry a request served earlier has left in cache.json.
StoredBefore ==
  [K0 |-> [cached_at |-> isoformat(datetime_now_utc(0)),
           data |-> NormalizeDetails("K0", IssueSparse, PyNone, PyNone)]]

InitConc ==
  /\ Start
  /\ cache_file \in {<<>>, StoredBefore}
  /\ probe = NoProbe

SpecConc == InitConc /\ [][NextConc]_vars

\* cache.json as an earlier run left it, with fresh entries for K0 and K1.
StoredUnreadable ==
  SetItem(StoredBefore, "K1",
    [cached_at |-> isoformat(datetime_now_utc(0)),
     data |-> NormalizeDetails("K1", IssueSparse, PyNone, PyNone)])

\* The server starts with a cache.json that holds entries but that
\* load_cache cannot read (open or json.load raises, lines 150-153).
InitUnreadable ==
  /\ now = 0
  /\ file_ok = FALSE
  /\ cache_file \in {StoredBefore, StoredUnreadable}
  /\ custom_field_cache = <<>>
  /\ jira_client \in BOOLEAN
  /\ jira_config \in JiraConfigs
  /\ tracker_fields \in TrackerFieldSets
  /\ pc = [p \in Procs |-> "idle"]
  /\ ticket_key = [p \in Procs |-> ""]
  /\ days = [p \in Procs |-> 0]
  /\ cache = [p \in Procs |-> <<>>]
  /\ issue = [p \in Procs |-> <<>>]
  /\ ticket_details = [p \in Procs |-> <<>>]
  /\ result = [p \in Procs |-> <<>>]
  /\ issue_fetches = [p \in Procs |-> 0]
  /\ field_fetches = [p \in Procs |-> 0]
  /\ found = [p \in Procs |-> "absent"]
  /\ save_outcome = [p \in Procs |-> "none"]
  /\ probe = NoProbe

SpecUnreadable == InitUnreadable /\ [][Next]_vars

\* ------------------------------------ save_cache, step by step, in a race

\* Lines 337-341, up to open(CACHE_FILE, 'w'): the entry is put in the local
\* cache and the file is opened for writing, which truncates it; until
\* something is written it holds nothing that parses.  When open raises,
\* save_cache returns and the call returns its projection.
OpenCacheFile(p, disk) ==
  /\ pc[p] = "storing"
  /\ disk \in {"ok", "open_fails"}
  /\ LET c == UpdatedCache(cache[p], ticket_key[p], ticket_details[p], now)
         f == filter_ticket_data_by_date(ticket_details[p], days[p], now)
     IN  /\ cache' = [cache EXCEPT ![p] = c]
         /\ IF disk = "open_fails"
            THEN /\ save_outcome' = [save_outcome EXCEPT ![p] = "open_failed"]
                 /\ result' = [result EXCEPT ![p] = SetItem(f.filtered_data, "_cache_hit", FALSE)]
                 /\ pc' = [pc EXCEPT ![p] = "done"]
                 /\ UNCHANGED <<cache_file, file_ok>>
            ELSE /\ save_outcome' = [save_outcome EXCEPT ![p] = "opened"]
                 /\ cache_file' = <<>>
                 /\ file_ok' = FALSE
                 /\ UNCHANGED <<result, pc>>
  /\ UNCHANGED <<now, custom_field_cache, jira_client, jira_config, tracker_fields,
                 ticket_key, days, issue, ticket_details, issue_fetches,
                 field_fetches, found, probe>>

\* Lines 161 and 343-346: json.dump writes the local cache from the start of
\* the file and the file is closed; the call returns its projection.  Each
\* writer has its own file position.  When another request has written the
\* file since this one opened it, this dump overwrites that one from the
\* start: the file holds this request's mapping when its dump is at least as
\* long as the other's (longer = TRUE), otherwise this mapping followed by
\* the rest of the other dump, which does not parse.  No exception is raised
\* in either case.  A request that had the file open when this one wrote
\* will in its turn write over this dump.
Dump(p, disk, longer) ==
  /\ pc[p] = "storing"
  /\ save_outcome[p] \in {"opened", "raced"}
  /\ disk \in {"ok", "write_fails"}
  /\ LET failed == disk = "write_fails" \/ ~JsonSerializable(cache[p])
         whole == ~failed /\ (save_outcome[p] = "opened" \/ longer)
         f == filter_ticket_data_by_date(ticket_details[p], days[p], now)
     IN  /\ cache_file' = IF whole THEN cache[p] ELSE <<>>
         /\ file_ok' = whole
         /\ save_outcome' =
              [q \in Procs |->
                 IF q = p THEN (IF failed THEN "write_failed" ELSE "ok")
                 ELSE IF save_outcome[q] = "opened" THEN "raced"
                 ELSE save_outcome[q]]
         /\ result' = [result EXCEPT ![p] = SetItem(f.filtered_data, "_cache_hit", FALSE)]
  /\ pc' = [pc EXCEPT ![p] = "done"]
  /\ UNCHANGED <<now, custom_field_cache, jira_client, jira_config, tracker_fields,
                 ticket_key, days, cache, issue, ticket_details, issue_fetches,
                 field_fetches, found, probe>>

\* Two requests served at the same time, each making one call, with the
\* steps of save_cache interleaving.
NextRace ==
  \/ Tick
  \/ \E p \in Procs, key \in Keys : pc[p] = "idle" /\ Lookup(p, key, 7)
  \/ \E p \in Procs, raw \in RawIssues, fields_up \in BOOLEAN : FetchOk(p, raw, fields_up)
  \/ \E p \in Procs, disk \in DiskOutcomes :
       save_outcome[p] = "none" /\ OpenCacheFile(p, disk)
  \/ \E p \in Procs, disk \in DiskOutcomes, longer \in BOOLEAN : Dump(p, disk, longer)

SpecRace == Init /\ [][NextRace]_vars

\* ------------------------------- get_custom_field_id, step by step

\* A tracker holding two custom fields whose names differ only in case.
FieldsDuplicateName ==
  <<[id |-> "customfield_10016", name |-> "Story Points", custom |-> TRUE],
    [id |-> "customfield_10106", name |-> "Story points", custom |-> TRUE],
    [id |-> "customfield_10020", name |-> "Sprint", custom |-> TRUE]>>

\* A tracker answering with a custom definition that has no name.
FieldsNameless ==
  <<[id |-> "customfield_10001", name |-> "", custom |-> TRUE],
    [id |-> "customfield_10020", name |-> "Sprint", custom |-> TRUE]>>

\* Bulk fetches that fail in a run.
MaxFailures == 2

\* The names the callers ask for.
FieldNames == {"Story Points", "story points", "Sprint", "Effort"}

\* The locals of each call: its argument, the definitions it fetched and has
\* still to go through, and the value it returned; failures counts the bulk
\* fetches that have failed so far.
InitFields ==
  /\ now = 0
  /\ cache_file = <<>>
  /\ file_ok = TRUE
  /\ custom_field_cache = <<>>
  /\ jira_client \in BOOLEAN
  /\ jira_config \in JiraConfigs
  /\ tracker_fields \in TrackerFieldSets \cup {FieldsDuplicateName, FieldsNameless}
  /\ pc = [p \in Procs |-> "idle"]
  /\ ticket_key = [p \in Procs |-> ""]
  /\ days = [p \in Procs |-> 0]
  /\ cache = [p \in Procs |-> <<>>]
  /\ issue = [p \in Procs |-> <<>>]
  /\ ticket_details = [p \in Procs |-> <<>>]
  /\ result = [p \in Procs |-> <<>>]
  /\ issue_fetches = [p \in Procs |-> 0]
  /\ field_fetches = [p \in Procs |-> 0]
  /\ found = [p \in Procs |-> "absent"]
  /\ save_outcome = [p \in Procs |-> "none"]
  /\ probe = [op |-> "get_custom_field_id",
              field_name |-> [p \in Procs |-> ""],
              fields |-> [p \in Procs |-> <<>>],
              value |-> [p \in Procs |-> PyNone],
              failures |-> 0]

FieldsFrame ==
  UNCHANGED <<now, cache_file, file_ok, jira_client, jira_config, tracker_fields,
              ticket_key, days, cache, issue, ticket_details, result,
              issue_fetches, found, save_outcome>>

\* Lines 348-359: without a client return None; a name that is a key of the
\* map returns its id; an empty map sends the call to the bulk fetch; a
\* non-empty one is looked up under the lower-cased name.
CallField(p, field_name) ==
  /\ probe.op = "get_custom_field_id"
  /\ pc[p] \in {"idle", "done"}
  /\ field_fetches' = [field_fetches EXCEPT ![p] = 0]
  /\ LET go(label, v) ==
           /\ pc' = [pc EXCEPT ![p] = label]
           /\ probe' = [probe EXCEPT !.field_name[p] = field_name,
                                     !.fields[p] = <<>>, !.value[p] = v]
     IN  IF ~jira_client THEN go("done", PyNone)
         ELSE IF field_name \in DOMAIN custom_field_cache
         THEN go("done", custom_field_cache[field_name])
         ELSE IF DOMAIN custom_field_cache = {} THEN go("fetching_fields", PyNone)
         ELSE go("done", DictGet(custom_field_cache, lower(field_name)))
  /\ UNCHANGED custom_field_cache
  /\ FieldsFrame

FetchFields_caches_absence_mutant(p, fields_up) ==
  /\ probe.op = "get_custom_field_id"
  /\ pc[p] = "fetching_fields"
  /\ fields_up \/ probe.failures < MaxFailures
  /\ field_fetches' = [field_fetches EXCEPT ![p] = @ + 1]
  /\ probe' = [probe EXCEPT !.fields[p] = IF fields_up THEN tracker_fields ELSE <<>>,
                            !.failures = IF fields_up THEN @ ELSE @ + 1]
  /\ pc' = [pc EXCEPT ![p] = IF fields_up /\ tracker_fields # <<>>
                              THEN "populating" ELSE "returning"]
  /\ custom_field_cache' =
       IF fields_up THEN custom_field_cache
       ELSE SetItem(custom_field_cache, lower(probe.field_name[p]), PyNone)
  /\ FieldsFrame

\* Line 362: jira_client.fields() answers, or raises and the exception is
\* caught at line 370.
FetchFields(p, fields_up) ==
  /\ probe.op = "get_custom_field_id"
  /\ pc[p] = "fetching_fields"
  /\ fields_up \/ probe.failures < MaxFailures
  /\ field_fetches' = [field_fetches EXCEPT ![p] = @ + 1]
  /\ probe' = [probe EXCEPT !.fields[p] = IF fields_up THEN tracker_fields ELSE <<>>,
                            !.failures = IF fields_up THEN @ ELSE @ + 1]
  /\ pc' = [pc EXCEPT ![p] = IF fields_up /\ tracker_fields # <<>>
                              THEN "populating" ELSE "returning"]
  /\ UNCHANGED custom_field_cache
  /\ FieldsFrame

PopulateOne_every_field_mutant(p) ==
  /\ probe.op = "get_custom_field_id"
  /\ pc[p] = "populating"
  /\ LET field == Head(probe.fields[p])
     IN  custom_field_cache' = SetItem(custom_field_cache, lower(field.name), field.id)
  /\ probe' = [probe EXCEPT !.fields[p] = Tail(@)]
  /\ pc' = [pc EXCEPT ![p] = IF Len(probe.fields[p]) = 1 THEN "returning" ELSE "populating"]
  /\ UNCHANGED field_fetches
  /\ FieldsFrame

\* Lines 364-369, one turn of the loop.
PopulateOne(p) ==
  /\ probe.op = "get_custom_field_id"
  /\ pc[p] = "populating"
  /\ custom_field_cache' = PopulateFieldCache(custom_field_cache, <<Head(probe.fields[p])>>)
  /\ probe' = [probe EXCEPT !.fields[p] = Tail(@)]
  /\ pc' = [pc EXCEPT ![p] = IF Len(probe.fields[p]) = 1 THEN "returning" ELSE "populating"]
  /\ UNCHANGED field_fetches
  /\ FieldsFrame

\* Line 374.
ReturnField(p) ==
  /\ probe.op = "get_custom_field_id"
  /\ pc[p] = "returning"
  /\ probe' = [probe EXCEPT !.value[p] = DictGet(custom_field_cache, lower(probe.field_name[p]))]
  /\ pc' = [pc EXCEPT ![p] = "done"]
  /\ UNCHANGED <<custom_field_cache, field_fetches>>
  /\ FieldsFrame

\* The callers in P resolving names, again and again.
ResolveSteps(P) ==
  \/ \E p \in P, field_name \in FieldNames : CallField(p, field_name)
  \/ \E p \in P, fields_up \in BOOLEAN : FetchFields(p, fields_up)
  \/ \E p \in P : PopulateOne(p)
  \/ \E p \in P : ReturnField(p)

\* Calls made at the same time.
NextFields == ResolveSteps(Procs)

\* Calls made one after another.
NextFieldsSeq == ResolveSteps({1})

SpecFieldsSeq == InitFields /\ [][NextFieldsSeq]_vars

SpecFields == InitFields /\ [][NextFields]_vars

\* ------------------------- get_estimation_field_id, get_sprint_field_id

\* A tracker holding the fields the overrides name and several of the
\* fallback names, listed in another order than the fallback order.
FieldsManyNames ==
  <<[id |-> "customfield_10050", name |-> "Effort", custom |-> TRUE],
    [id |-> "customfield_10016", name |-> "Story Points", custom |-> TRUE],
    [id |-> "customfield_10030", name |-> "Story point estimate", custom |-> TRUE],
    [id |-> "customfield_10021", name |-> "Sprints", custom |-> TRUE],
    [id |-> "customfield_10020", name |-> "Sprint", custom |-> TRUE]>>

\* JIRA_ESTIMATION_FIELD and JIRA_SPRINT_FIELD: unset, a name the tracker
\* may hold, a name it does not hold.
OverrideConfigs ==
  {[estimation_field |-> e, sprint_field |-> sp] :
     e \in {"", "Effort", "Velocity"}, sp \in {"", "Sprints"}}

InitResolve ==
  /\ now = 0
  /\ cache_file = <<>>
  /\ file_ok = TRUE
  /\ custom_field_cache = <<>>
  /\ jira_client \in BOOLEAN
  /\ jira_config \in OverrideConfigs
  /\ tracker_fields \in TrackerFieldSets \cup {FieldsDuplicateName, FieldsManyNames}
  /\ pc = [p \in Procs |-> "idle"]
  /\ ticket_key = [p \in Procs |-> ""]
  /\ days = [p \in Procs |-> 0]
  /\ cache = [p \in Procs |-> <<>>]
  /\ issue = [p \in Procs |-> <<>>]
  /\ ticket_details = [p \in Procs |-> <<>>]
  /\ result = [p \in Procs |-> <<>>]
  /\ issue_fetches = [p \in Procs |-> 0]
  /\ field_fetches = [p \in Procs |-> 0]
  /\ found = [p \in Procs |-> "absent"]
  /\ save_outcome = [p \in Procs |-> "none"]
  /\ probe = [op |-> "resolve", called |-> "none", value |-> PyNone,
              fetches |-> 0, before |-> <<>>, fields_up |-> FALSE]

ResolveFrame ==
  UNCHANGED <<now, cache_file, file_ok, jira_client, jira_config, tracker_fields,
              pc, ticket_key, days, cache, issue, ticket_details, result,
              issue_fetches, field_fetches, found, save_outcome>>

\* A call of get_estimation_field_id(), the tracker answering the bulk
\* fetch or not.
ResolveEstimation(fields_up) ==
  /\ probe.op = "resolve"
  /\ LET r == get_estimation_field_id(custom_field_cache, jira_config,
                [client |-> jira_client, fields_up |-> fields_up, fields |-> tracker_fields])
     IN  /\ custom_field_cache' = r.cfc
         /\ probe' = [op |-> "resolve", called |-> "estimation", value |-> r.value,
                      fetches |-> r.fetches, before |-> custom_field_cache,
                      fields_up |-> fields_up]
  /\ ResolveFrame

\* A call of get_sprint_field_id().
ResolveSprint(fields_up) ==
  /\ probe.op = "resolve"
  /\ LET r == get_sprint_field_id(custom_field_cache, jira_config,
                [client |-> jira_client, fields_up |-> fields_up, fields |-> tracker_fields])
     IN  /\ custom_field_cache' = r.cfc
         /\ probe' = [op |-> "resolve", called |-> "sprint", value |-> r.value,
                      fetches |-> r.fetches, before |-> custom_field_cache,
                      fields_up |-> fields_up]
  /\ ResolveFrame

NextResolve ==
  \/ \E fields_up \in BOOLEAN : ResolveEstimation(fields_up)
  \/ \E fields_up \in BOOLEAN : ResolveSprint(fields_up)

SpecResolve == InitResolve /\ [][NextResolve]_vars

\* --------------------------------------------- the functions applied alone

\* Entries is_cache_fresh may be handed: an empty one, one with no
\* cached_at, and entries cached at instants from before the TTL to after
\* the clock's start, written in two zones.
FreshProbeEntries ==
  {<<>>, [data |-> [key |-> "K1"]]}
    \cup {[cached_at |-> Stamp(t0, tz), data |-> [key |-> "K1"]] :
            t0 \in (0 - CACHE_EXPIRY_HOURS * TicksPerHour - 1) .. 1,
            tz \in {"+00:00", "+01:00"}}

InitFresh ==
  /\ Start
  /\ jira_client /\ tracker_fields = FieldsWithCustom
  /\ cache_file = <<>>
  /\ probe \in {[op |-> "is_cache_fresh", cached_data |-> e, done |-> FALSE,
                 out |-> FALSE, at |-> 0] : e \in FreshProbeEntries}

\* is_cache_fresh(cached_data) is called with the default hours.
CheckFresh ==
  /\ probe.op = "is_cache_fresh"
  /\ probe' = [probe EXCEPT !.done = TRUE, !.at = now,
                 !.out = is_cache_fresh(probe.cached_data, CACHE_EXPIRY_HOURS, now)]
  /\ UNCHANGED <<now, cache_file, file_ok, custom_field_cache, jira_client, jira_config,
                 tracker_fields, pc, ticket_key, days, cache, issue, ticket_details,
                 result, issue_fetches, field_fetches, found, save_outcome>>

NextFresh == Tick \/ CheckFresh

SpecFresh == InitFresh /\ [][NextFresh]_vars

\* Records the cache stores: each raw issue normalised, with the estimation
\* and sprint fields resolved or not.
ProbeRecords ==
  {NormalizeDetails("K1", raw, ids[1], ids[2]) :
     raw \in RawIssues,
     ids \in {<<"customfield_10016", "customfield_10020">>, <<PyNone, PyNone>>}}

InitProject ==
  /\ Start
  /\ jira_client /\ tracker_fields = FieldsWithCustom
  /\ cache_file = <<>>
  /\ probe \in {[op |-> "project", rec |-> R, n |-> 0,
                 w1 |-> 0, t1 |-> 0, arg1 |-> <<>>, out1 |-> <<>>,
                 kind2 |-> "none", w2 |-> 0, t2 |-> 0, out2 |-> <<>>] :
                  R \in ProbeRecords}

ProbeFrame ==
  UNCHANGED <<now, cache_file, file_ok, custom_field_cache, jira_client, jira_config,
              tracker_fields, pc, ticket_key, days, cache, issue, ticket_details,
              result, issue_fetches, field_fetches, found, save_outcome>>

\* filter_ticket_data_by_date(rec, w).
ProjectFirst(w) ==
  /\ probe.op = "project" /\ probe.n = 0
  /\ LET f == filter_ticket_data_by_date(probe.rec, w, now)
     IN  probe' = [probe EXCEPT !.n = 1, !.w1 = w, !.t1 = now,
                     !.arg1 = f.full_data, !.out1 = f.filtered_data]
  /\ ProbeFrame

\* filter_ticket_data_by_date(rec, w) once more, on the same object.
ProjectOther(w) ==
  /\ probe.op = "project" /\ probe.n = 1
  /\ LET f == filter_ticket_data_by_date(probe.arg1, w, now)
     IN  probe' = [probe EXCEPT !.n = 2, !.kind2 = "other", !.w2 = w, !.t2 = now,
                     !.out2 = f.filtered_data]
  /\ ProbeFrame

\* filter_ticket_data_by_date(out1, w): the projection projected again.
ProjectAgain(w) ==
  /\ probe.op = "project" /\ probe.n = 1
  /\ LET f == filter_ticket_data_by_date(probe.out1, w, now)
     IN  probe' = [probe EXCEPT !.n = 2, !.kind2 = "again", !.w2 = w, !.t2 = now,
                     !.out2 = f.filtered_data]
  /\ ProbeFrame

NextProject ==
  \/ Tick
  \/ \E w \in DaysSet : ProjectFirst(w)
  \/ \E w \in DaysSet : ProjectOther(w)
  \/ \E w \in DaysSet : ProjectAgain(w)

SpecProject == InitProject /\ [][NextProject]_vars

\* ------------------------------------------- parse_issue: the estimation

\* Values of the estimation field.  [type |-> "none"] is None; an int is
\* [type |-> "int", int |-> n]; a float is kept as twice its value, so that
\* 4.5 is [type |-> "float", twice |-> 9]; a str is [type |-> "str", str |-> s];
\* a dict is [type |-> "dict", dict |-> d], d holding values of these kinds;
\* any other object is [type |-> "obj", repr |-> its str()].
PyInt(n) == [type |-> "int", int |-> n]
PyFloat(twice) == [type |-> "float", twice |-> twice]
PyStr(str) == [type |-> "str", str |-> str]

\* Truth value of a Python value: None, 0, 0.0 and '' are false.
TruthyValue(v) ==
  CASE v.type = "none"  -> FALSE
    [] v.type = "int"   -> v.int # 0
    [] v.type = "float" -> v.twice # 0
    [] v.type = "str"   -> v.str # ""
    [] OTHER            -> TRUE

\* d.get(name).
DictGetValue(d, name) == IF name \in DOMAIN d THEN d[name] ELSE EstNone

\* Lines 587-608 of parse_issue: story_points from the value of the
\* estimation field.
parse_issue_story_points(estimation_value) ==
  IF estimation_value.type = "none" THEN EstNone
  ELSE IF estimation_value.type \in {"int", "float"}
  THEN IF estimation_value.type = "float" /\ estimation_value.twice % 2 = 0
       THEN PyInt(estimation_value.twice \div 2)
       ELSE estimation_value
  ELSE IF estimation_value.type = "str" THEN estimation_value
  ELSE IF estimation_value.type = "dict"
  THEN LET value == DictGetValue(estimation_value.dict, "value")
       IN  IF TruthyValue(value) THEN value
           ELSE DictGetValue(estimation_value.dict, "name")
  ELSE PyStr(estimation_value.repr)

\* Largest float, counted in halves, among the estimations tried.
MaxTwice == 11

\* The scalars an option dict may hold under value and name.
DictScalars ==
  {EstNone, PyInt(0), PyInt(3), PyFloat(0), PyFloat(9), PyStr(""), PyStr("M")}

\* The estimation values the tracker may answer with.
EstimationValues ==
  {EstNone}
    \cup {PyInt(n) : n \in 0..5}
    \cup {PyFloat(t) : t \in 0..MaxTwice}
    \cup {PyStr(str) : str \in {"L", "M", "XL", "5", "4.5", ""}}
    \cup {[type |-> "dict", dict |-> [value |-> v, name |-> n]] :
            v \in DictScalars, n \in {EstNone, PyStr(""), PyStr("Medium")}}
    \cup {[type |-> "dict", dict |-> [value |-> v]] : v \in DictScalars}
    \cup {[type |-> "dict", dict |-> [name |-> PyStr("Medium"), id |-> PyStr("10")]],
          [type |-> "dict", dict |-> [id |-> PyStr("10")]]}
    \cup {[type |-> "obj", repr |-> "<JIRA CustomFieldOption>"]}

InitEstimation ==
  /\ Start
  /\ jira_client /\ tracker_fields = FieldsWithCustom
  /\ cache_file = <<>>
  /\ probe \in {[op |-> "estimation", estimation_value |-> v, done |-> FALSE,
                 story_points |-> EstNone, estimation |-> EstNone] :
                  v \in EstimationValues}

\* An issue whose estimation field (customfield_10016) holds v goes through
\* parse_issue, and through get_cached_ticket_details as key K1.
NormalizeEstimation ==
  /\ probe.op = "estimation" /\ ~probe.done
  /\ probe' = [probe EXCEPT
       !.done = TRUE,
       !.story_points = parse_issue_story_points(probe.estimation_value),
       !.estimation =
          NormalizeDetails("K1",
            [fields |-> [summary |-> "s", customfield_10016 |-> probe.estimation_value]],
            "customfield_10016", PyNone).estimation]
  /\ ProbeFrame

NextEstimation == NormalizeEstimation

SpecEstimation == InitEstimation /\ [][NextEstimation]_vars

\* ----------------------------------------------------------- parse_issue

\* hasattr(obj, name); false on None.
HasAttr(obj, name) == name \in DOMAIN obj

\* Truth value of a timestamp string or None; None is NoneObj here.
TruthyDate(d) == IsSet(d)

\* any(hasattr(item, 'field') and item.field == 'status' for item in items):
\* whether the inner loop of lines 716-719 and 527-530 reaches its break.
HasStatusItem(items) ==
  \E i \in 1..Len(items) : HasAttr(items[i], "field") /\ items[i].field = "status"

RECURSIVE ScanStatusChange_oldest_first_mutant(_, _, _)
ScanStatusChange_oldest_first_mutant(histories, n, status_change_date) ==
  IF n = 0 THEN status_change_date
  ELSE LET history == histories[Len(histories) + 1 - n]
           date == IF HasStatusItem(GetAttr(history, "items", <<>>))
                   THEN GetAttr(history, "created", NoneObj)
                   ELSE status_change_date
       IN  IF TruthyDate(date) THEN date
           ELSE ScanStatusChange_oldest_first_mutant(histories, n - 1, date)

RECURSIVE ScanStatusChange(_, _, _)
\* The loop "for history in reversed(histories)" of lines 714-721 and
\* 525-532 from event n down to event 1, status_change_date being the value
\* the variable holds when the loop reaches event n.
ScanStatusChange(histories, n, status_change_date) ==
  IF n = 0 THEN status_change_date
  ELSE LET history == histories[n]
           date == IF HasStatusItem(GetAttr(history, "items", <<>>))
                   THEN GetAttr(history, "created", NoneObj)
                   ELSE status_change_date
       IN  IF TruthyDate(date) THEN date
           ELSE ScanStatusChange(histories, n - 1, date)

\* Lines 709-721: status_change_date from the changelog of the issue.
StatusChangeDate(issue_obj) ==
  LET changelog == GetAttr(issue_obj, "changelog", NoneObj)
      histories == GetAttr(changelog, "histories", <<>>)
  IN  IF IsSet(changelog)
      THEN ScanStatusChange(histories, Len(histories), NoneObj)
      ELSE NoneObj

\* Lines 683 and 690: link.type is read without a guard whenever the link
\* has an outward or an inward issue; the read raises AttributeError when
\* the link has no type attribute.
LinkRaises(link) ==
  /\ HasAttr(link, "outwardIssue") \/ HasAttr(link, "inwardIssue")
  /\ ~HasAttr(link, "type")

\* Lines 682-686 and 689-693: the entry built for one end of a link.
LinkEntry(link, direction, end) ==
  [type |-> GetAttr(link.type, direction, ""),
   key |-> GetAttr(link[end], "key", ""),
   summary |-> GetAttr(GetAttr(link[end], "fields", NoneObj), "summary", "")]

RECURSIVE IssueLinks(_)
\* Lines 679-693, over links none of which raises.
IssueLinks(issuelinks) ==
  IF issuelinks = <<>> THEN <<>>
  ELSE LET link == Head(issuelinks)
       IN  (IF HasAttr(link, "outwardIssue")
            THEN <<LinkEntry(link, "outward", "outwardIssue")>> ELSE <<>>)
           \o (IF HasAttr(link, "inwardIssue")
               THEN <<LinkEntry(link, "inward", "inwardIssue")>> ELSE <<>>)
           \o IssueLinks(Tail(issuelinks))

RECURSIVE Subtasks(_)
\* Lines 696-703.
Subtasks(subtasks_list) ==
  IF subtasks_list = <<>> THEN <<>>
  ELSE LET subtask == Head(subtasks_list)
           sfields == GetAttr(subtask, "fields", NoneObj)
       IN  <<[key |-> GetAttr(subtask, "key", ""),
              summary |-> GetAttr(sfields, "summary", ""),
              status |-> GetAttr(GetAttr(sfields, "status", NoneObj), "name", "Unknown")]>>
           \o Subtasks(Tail(subtasks_list))

NativeParent_case_sensitive_mutant(fields) ==
  LET parent == GetAttr(fields, "parent", NoneObj)
      pfields == GetAttr(parent, "fields", NoneObj)
      parent_key == GetAttr(parent, "key", PyNone)
      parent_name == GetAttr(pfields, "summary", parent_key)
      parent_type_name == AttrOr(GetAttr(pfields, "issuetype", NoneObj), "name", "")
      is_epic == parent_type_name = "epic"
  IN  IF ~IsSet(parent)
      THEN [raises |-> FALSE, parent_key |-> PyNone, parent_name |-> PyNone,
            epic_key |-> PyNone, epic_name |-> PyNone]
      ELSE [raises |-> parent_type_name = PyNone,
            parent_key |-> parent_key, parent_name |-> parent_name,
            epic_key |-> IF is_epic THEN parent_key ELSE PyNone,
            epic_name |-> IF is_epic THEN parent_name ELSE PyNone]

\* Lines 644-656: what the native parent gives.  raises: the parent's issue
\* type has the name None, on which .lower() raises AttributeError.
NativeParent(fields) ==
  LET parent == GetAttr(fields, "parent", NoneObj)
      pfields == GetAttr(parent, "fields", NoneObj)
      parent_key == GetAttr(parent, "key", PyNone)
      parent_name == GetAttr(pfields, "summary", parent_key)
      parent_issuetype == GetAttr(pfields, "issuetype", NoneObj)
      parent_type_name == AttrOr(parent_issuetype, "name", "")
      is_epic == lower(parent_type_name) = "epic"
  IN  IF ~IsSet(parent)
      THEN [raises |-> FALSE, parent_key |-> PyNone, parent_name |-> PyNone,
            epic_key |-> PyNone, epic_name |-> PyNone]
      ELSE [raises |-> parent_type_name = PyNone,
            parent_key |-> parent_key, parent_name |-> parent_name,
            epic_key |-> IF is_epic THEN parent_key ELSE PyNone,
            epic_name |-> IF is_epic THEN parent_name ELSE PyNone]

\* Lines 637-674: the native parent, then the Epic Link field when no epic
\* key was found, then the Parent Link field when no parent key was found.
\* epic_link_field and parent_link_field are what get_custom_field_id
\* returns on lines 660 and 669.
Hierarchy(fields, epic_link_field, parent_link_field) ==
  LET native == NativeParent(fields)
      epic_link == IF Truthy(epic_link_field)
                   THEN GetAttr(fields, epic_link_field, PyNone) ELSE PyNone
      epic_used == ~Truthy(native.epic_key) /\ Truthy(epic_link)
      parent_link == IF Truthy(parent_link_field)
                     THEN GetAttr(fields, parent_link_field, PyNone) ELSE PyNone
      parent_used == ~Truthy(native.parent_key) /\ Truthy(parent_link)
  IN  [raises |-> native.raises,
       epic_key |-> IF epic_used THEN epic_link ELSE native.epic_key,
       epic_name |-> IF epic_used THEN epic_link ELSE native.epic_name,
       parent_key |-> IF parent_used THEN parent_link ELSE native.parent_key,
       parent_name |-> IF parent_used THEN parent_link ELSE native.parent_name]

\* server.py parse_issue(issue), given the field ids its resolver calls
\* return (lines 589, 613, 660 and 669).  The result says whether the call
\* raised and holds the dict it returned otherwise.
parse_issue(issue_obj, estimation_field, sprint_field_id, epic_link_field, parent_link_field) ==
  LET fields == issue_obj.fields
      status == GetAttr(fields, "status", NoneObj)
      assignee == GetAttr(fields, "assignee", NoneObj)
      reporter == GetAttr(fields, "reporter", NoneObj)
      priority == GetAttr(fields, "priority", NoneObj)
      issuetype == GetAttr(fields, "issuetype", NoneObj)
      estimation_value ==
        IF Truthy(estimation_field)
        THEN GetAttr(fields, estimation_field, EstNone) ELSE EstNone
      sp == SprintOf(fields, sprint_field_id)
      h == Hierarchy(fields, epic_link_field, parent_link_field)
      issuelinks == GetAttr(fields, "issuelinks", <<>>)
      resolution == GetAttr(fields, "resolution", NoneObj)
  IN  IF h.raises \/ \E i \in 1..Len(issuelinks) : LinkRaises(issuelinks[i])
      THEN [raised |-> TRUE, ticket |-> <<>>]
      ELSE
       [raised |-> FALSE,
        ticket |->
          [key |-> issue_obj.key,
           summary |-> GetAttr(fields, "summary", ""),
           status |-> AttrOr(status, "name", "Unknown"),
           statusCategory |->
             GetAttr(GetAttr(status, "statusCategory", NoneObj), "key", "other"),
           assignee |-> AttrOr(assignee, "displayName", "Unassigned"),
           reporter |-> AttrOr(reporter, "displayName", "Unknown"),
           priority |-> AttrOr(priority, "name", "None"),
           storyPoints |-> parse_issue_story_points(estimation_value),
           type |-> AttrOr(issuetype, "name", "Task"),
           epicKey |-> h.epic_key,
           epicName |-> h.epic_name,
           parentKey |-> h.parent_key,
           parentName |-> h.parent_name,
           issueLinks |-> IssueLinks(issuelinks),
           subtasks |-> Subtasks(GetAttr(fields, "subtasks", <<>>)),
           resolution |-> AttrOr(resolution, "name", PyNone),
           statusChangeDate |-> StatusChangeDate(issue_obj),
           sprint |-> sp.sprint,
           sprintState |-> sp.sprint_state]]

\* The tracker's definitions with the two hierarchy fields.
FieldsHierarchy ==
  FieldsWithCustom
    \o <<[id |-> "customfield_10014", name |-> "Epic Link", custom |-> TRUE],
         [id |-> "customfield_10018", name |-> "Parent Link", custom |-> TRUE]>>

\* The parts of a raw issue; <<>> is the part left out of the issue.
StatusParts ==
  {<<>>,
   [status |-> NoneObj],
   [status |-> [name |-> "In Review", statusCategory |-> [key |-> "indeterminate"]]]}

PeopleParts ==
  {<<>>,
   [summary |-> "Fix login",
    assignee |-> [displayName |-> "Ann"], reporter |-> [displayName |-> "Bob"],
    priority |-> [name |-> "High"], issuetype |-> [name |-> "Story"],
    resolution |-> [name |-> "Done"],
    customfield_10016 |-> PyFloat(10),
    customfield_10020 |-> <<[type |-> "dict", dict |-> [name |-> "Sprint 7", state |-> "Active"]]>>,
    subtasks |-> <<[key |-> "S1", fields |-> [summary |-> "sub", status |-> [name |-> "Open"]]],
                   [key |-> "S2", fields |-> [summary |-> "sub2"]]>>],
   [assignee |-> NoneObj, reporter |-> NoneObj, priority |-> NoneObj,
    issuetype |-> NoneObj, resolution |-> NoneObj,
    subtasks |-> <<[key |-> "S1"], [fields |-> [status |-> NoneObj]]>>]}

ParentParts ==
  {<<>>,
   [parent |-> NoneObj],
   [parent |-> [key |-> "P1"]],
   [parent |-> [key |-> "P1", fields |-> [summary |-> "Parent story", issuetype |-> [name |-> "Story"]]]],
   [parent |-> [key |-> "E1", fields |-> [summary |-> "Epic one", issuetype |-> [name |-> "Epic"]]]],
   [parent |-> [key |-> "E1", fields |-> [issuetype |-> [name |-> "EPIC"]]]],
   [parent |-> [fields |-> [summary |-> "Keyless epic", issuetype |-> [name |-> "Epic"]]]]}

EpicLinkParts == {<<>>, [customfield_10014 |-> "E2"]}
ParentLinkParts == {<<>>, [customfield_10018 |-> "P2"]}

LinkParts ==
  {<<>>,
   [issuelinks |-> <<>>],
   [issuelinks |->
      <<[type |-> [outward |-> "blocks", inward |-> "is blocked by"],
         outwardIssue |-> [key |-> "K2", fields |-> [summary |-> "other"]]],
        [type |-> [outward |-> "blocks", inward |-> "is blocked by"],
         inwardIssue |-> [key |-> "K2", fields |-> [summary |-> "other"]]]>>],
   [issuelinks |->
      <<[type |-> [name |-> "Blocks"], outwardIssue |-> [key |-> "K2"]],
        [type |-> NoneObj, inwardIssue |-> NoneObj],
        [type |-> [outward |-> "blocks"]]>>],
   [issuelinks |-> <<[outwardIssue |-> [key |-> "K2", fields |-> [summary |-> "other"]]]>>]}

\* Change histories, oldest first as the tracker sends them.
HistoryStatusOld ==
  [created |-> Stamp(WeekAgo, "Z"),
   items |-> <<[field |-> "status", fromString |-> "Open", toString |-> "In Progress"]>>]
HistoryStatusNew ==
  [created |-> Stamp(DayAgo, "+01:00"),
   items |-> <<[field |-> "assignee", toString |-> "Ann"],
               [field |-> "status", fromString |-> "In Progress", toString |-> "In Review"]>>]
HistoryStatusUntimed ==
  [items |-> <<[field |-> "status", fromString |-> "In Review", toString |-> "Done"]>>]
HistoryOther ==
  [created |-> Stamp(0, "Z"), items |-> <<[field |-> "labels"], [toString |-> "x"]>>]
HistoryNoItems == [created |-> Stamp(0, "Z")]

ChangelogParts ==
  {<<>>,
   [changelog |-> NoneObj],
   [changelog |-> [total |-> 0]],
   [changelog |-> [histories |-> <<HistoryOther, HistoryNoItems>>]],
   [changelog |-> [histories |-> <<HistoryStatusOld, HistoryStatusNew, HistoryOther>>]],
   [changelog |-> [histories |-> <<HistoryStatusOld, HistoryOther, HistoryStatusUntimed, HistoryNoItems>>]],
   [changelog |-> [histories |-> <<HistoryOther, HistoryStatusUntimed>>]]}

\* The raw issues parse_issue is applied to.
ParseIssues ==
  {[key |-> "K1", fields |-> s @@ pe @@ pa @@ el @@ pl @@ li] @@ ch :
     s \in StatusParts, pe \in PeopleParts, pa \in ParentParts,
     el \in EpicLinkParts, pl \in ParentLinkParts, li \in LinkParts,
     ch \in ChangelogParts}

InitParse ==
  /\ now = 0
  /\ cache_file = <<>>
  /\ file_ok = TRUE
  /\ custom_field_cache = <<>>
  /\ jira_client = TRUE
  /\ jira_config \in JiraConfigs
  /\ tracker_fields \in {FieldsHierarchy, FieldsWithCustom}
  /\ pc = [p \in Procs |-> "idle"]
  /\ ticket_key = [p \in Procs |-> ""]
  /\ days = [p \in Procs |-> 0]
  /\ cache = [p \in Procs |-> <<>>]
  /\ issue = [p \in Procs |-> <<>>]
  /\ ticket_details = [p \in Procs |-> <<>>]
  /\ result = [p \in Procs |-> <<>>]
  /\ issue_fetches = [p \in Procs |-> 0]
  /\ field_fetches = [p \in Procs |-> 0]
  /\ found = [p \in Procs |-> "absent"]
  /\ save_outcome = [p \in Procs |-> "none"]
  /\ probe \in {[op |-> "parse_issue", issue |-> i, done |-> FALSE,
                 raised |-> FALSE, ticket |-> <<>>] : i \in ParseIssues}

\* A resolver call that is not made.
NotCalled(cfc) == [cfc |-> cfc, value |-> PyNone, fetches |-> 0]

\* parse_issue(issue), the tracker answering the bulk fetch of the field
\* definitions or not.  The resolver calls are made in the order of the
\* code: the estimation field (line 589), the sprint field (613), Epic Link
\* when the native parent gave no epic key (659-660), Parent Link when it
\* gave no parent key (668-669); a parent type name on which .lower() raises
\* (653) ends the call before the last two.
ParseIssue(fields_up) ==
  /\ probe.op = "parse_issue" /\ ~probe.done
  /\ LET jira == [client |-> jira_client, fields_up |-> fields_up, fields |-> tracker_fields]
         native == NativeParent(probe.issue.fields)
     IN  \E est \in {get_estimation_field_id(custom_field_cache, jira_config, jira)} :
         \E spr \in {get_sprint_field_id(est.cfc, jira_config, jira)} :
         \E el \in {IF ~native.raises /\ ~Truthy(native.epic_key)
                    THEN get_custom_field_id(spr.cfc, "Epic Link", jira)
                    ELSE NotCalled(spr.cfc)} :
         \E pl \in {IF ~native.raises /\ ~Truthy(native.parent_key)
                    THEN get_custom_field_id(el.cfc, "Parent Link", jira)
                    ELSE NotCalled(el.cfc)} :
         \E r \in {parse_issue(probe.issue, est.value, spr.value, el.value, pl.value)} :
           /\ custom_field_cache' = pl.cfc
           /\ probe' = [probe EXCEPT !.done = TRUE, !.raised = r.raised, !.ticket = r.ticket]
  /\ ResolveFrame

NextParse == \E fields_up \in BOOLEAN : ParseIssue(fields_up)

SpecParse == InitParse /\ [][NextParse]_vars

\* ---------------------------------------------------------- search_issues

\* s.find('review') != -1 on the lower-cased status names that occur.
find_review(s) == s \in {"in review", "code review"}

RECURSIVE ParseAll(_, _, _, _, _)
\* The loop of lines 470-472: parse_issue on each result, in order.  The
\* four field ids are those the resolver calls of lines 442-454 returned:
\* the calls parse_issue makes come after them and, the tracker answering
\* every bulk fetch of one request alike, return the same ids and leave
\* custom_field_cache as it is.
ParseAll(issues, estimation_field, sprint_field, epic_link_field, parent_link_field) ==
  IF issues = <<>> THEN [raised |-> FALSE, tickets |-> <<>>]
  ELSE LET r == parse_issue(Head(issues), estimation_field, sprint_field,
                            epic_link_field, parent_link_field)
           rest == ParseAll(Tail(issues), estimation_field, sprint_field,
                            epic_link_field, parent_link_field)
       IN  IF r.raised \/ rest.raised THEN [raised |-> TRUE, tickets |-> <<>>]
           ELSE [raised |-> FALSE, tickets |-> <<r.ticket>> \o rest.tickets]

\* Lines 467-476: epic_keys and parent_keys.
EpicKeysOf(tickets) ==
  {tickets[i].epicKey : i \in {j \in 1..Len(tickets) : Truthy(tickets[j].epicKey)}}
ParentKeysOf(tickets) ==
  {tickets[i].parentKey : i \in {j \in 1..Len(tickets) : Truthy(tickets[j].parentKey)}}

\* Lines 481-485 and 492-496: jira_client.issue(key, fields='summary') answers
\* with the issue (answer.up), whose fields may lack the summary, or raises.
FetchedName(key, answer) ==
  IF answer.up /\ HasAttr(answer, "summary") THEN answer.summary ELSE key

\* Lines 479-485.
EpicSummaries(epic_keys, summaries) ==
  [k \in epic_keys |-> FetchedName(k, summaries[k])]

ParentSummaries_always_fetch_mutant(parent_keys, epic_summaries, summaries) ==
  [fetched |-> parent_keys,
   names |-> [k \in parent_keys |-> FetchedName(k, summaries[k])]]

\* Lines 488-498: the keys fetched and parent_summaries.
ParentSummaries(parent_keys, epic_summaries, summaries) ==
  [fetched |-> parent_keys \ DOMAIN epic_summaries,
   names |-> [k \in parent_keys |->
                IF k \notin DOMAIN epic_summaries
                THEN FetchedName(k, summaries[k])
                ELSE epic_summaries[k]]]

Enrich_keep_parsed_name_on_failure_mutant(ticket, epic_summaries, parent_summaries) ==
  LET t1 == IF Truthy(ticket.epicKey) /\ ticket.epicKey \in DOMAIN epic_summaries
               /\ epic_summaries[ticket.epicKey] # ticket.epicKey
            THEN [ticket EXCEPT !.epicName = epic_summaries[ticket.epicKey]]
            ELSE ticket
  IN  IF Truthy(t1.parentKey) /\ t1.parentKey \in DOMAIN parent_summaries
         /\ parent_summaries[t1.parentKey] # t1.parentKey
      THEN [t1 EXCEPT !.parentName = parent_summaries[t1.parentKey]]
      ELSE t1

\* Lines 501-505: the names of one ticket after the enrichment pass.
Enrich(ticket, epic_summaries, parent_summaries) ==
  LET t1 == IF Truthy(ticket.epicKey) /\ ticket.epicKey \in DOMAIN epic_summaries
            THEN [ticket EXCEPT !.epicName = epic_summaries[ticket.epicKey]]
            ELSE ticket
  IN  IF Truthy(t1.parentKey) /\ t1.parentKey \in DOMAIN parent_summaries
      THEN [t1 EXCEPT !.parentName = parent_summaries[t1.parentKey]]
      ELSE t1

InProgress_category_only_mutant(ticket) == ticket.statusCategory = "indeterminate"

\* Lines 508-512: membership of in_progress_tickets.
InProgress(ticket) ==
  \/ ticket.statusCategory \in {"indeterminate"}
  \/ find_review(lower(ticket.status))

\* Lines 514-535: one ticket after its changelog fetch; the fetch answers
\* with an issue (answer.up) or raises.
Backfill(ticket, answer) ==
  IF ~answer.up THEN ticket
  ELSE LET changelog == GetAttr(answer.issue, "changelog", NoneObj)
           histories == GetAttr(changelog, "histories", <<>>)
       IN  IF IsSet(changelog)
           THEN [ticket EXCEPT !.statusChangeDate =
                   ScanStatusChange(histories, Len(histories), ticket.statusChangeDate)]
           ELSE ticket

\* Largest number of results of one search.
MaxResults == 2

\* The keys the results refer to, and the summaries the tracker holds.
ReferencedKeys == {"E1", "E2", "P1"}
TrackerSummary(key) ==
  CASE key = "E1" -> "Epic one"
    [] key = "E2" -> "Epic two"
    [] key = "P1" -> "Parent story"

\* The raw results, by their hierarchy and status, before they get a key.
ResultEpicParent ==
  [fields |->
     [summary |-> "a",
      status |-> [name |-> "In Progress", statusCategory |-> [key |-> "indeterminate"]],
      parent |-> [key |-> "E1",
                  fields |-> [summary |-> "Epic one", issuetype |-> [name |-> "Epic"]]]]]
ResultEpicLink ==
  [fields |->
     [summary |-> "b",
      status |-> [name |-> "Code Review", statusCategory |-> [key |-> "new"]],
      customfield_10014 |-> "E2",
      parent |-> [key |-> "P1", fields |-> [issuetype |-> [name |-> "Story"]]]]]
ResultParentLink ==
  [fields |->
     [summary |-> "c",
      status |-> [name |-> "Done", statusCategory |-> [key |-> "done"]],
      customfield_10018 |-> "E1"]]
ResultBare == [fields |-> [summary |-> "d"]]

ResultKinds == {ResultEpicParent, ResultEpicLink, ResultParentLink, ResultBare}

\* jira_client.search_issues answers with at most MaxResults issues, each
\* with a key of its own.
ResultKey(i) == CASE i = 1 -> "K1" [] i = 2 -> "K2" [] OTHER -> "K3"
UpstreamResults ==
  UNION {{[i \in 1..n |-> [key |-> ResultKey(i)] @@ kinds[i]] :
            kinds \in [1..n -> ResultKinds]} : n \in 0..MaxResults}

\* The answers of a summary fetch and of a changelog fetch.
SummaryAnswers(key) ==
  {[up |-> FALSE], [up |-> TRUE], [up |-> TRUE, summary |-> TrackerSummary(key)]}
ChangelogAnswers ==
  {[up |-> FALSE, issue |-> <<>>],
   [up |-> TRUE,
    issue |-> [changelog |-> [histories |-> <<HistoryStatusOld, HistoryStatusNew, HistoryOther>>]]],
   [up |-> TRUE, issue |-> [changelog |-> [histories |-> <<HistoryOther>>]]]}

SummaryAnswerSets ==
  {f \in [ReferencedKeys -> UNION {SummaryAnswers(k) : k \in ReferencedKeys}] :
     \A k \in ReferencedKeys : f[k] \in SummaryAnswers(k)}

InitSearch ==
  /\ now = 0
  /\ cache_file = <<>>
  /\ file_ok = TRUE
  /\ custom_field_cache = <<>>
  /\ jira_client = TRUE
  /\ jira_config \in JiraConfigs
  /\ tracker_fields = FieldsHierarchy
  /\ pc = [p \in Procs |-> "idle"]
  /\ ticket_key = [p \in Procs |-> ""]
  /\ days = [p \in Procs |-> 0]
  /\ cache = [p \in Procs |-> <<>>]
  /\ issue = [p \in Procs |-> <<>>]
  /\ ticket_details = [p \in Procs |-> <<>>]
  /\ result = [p \in Procs |-> <<>>]
  /\ issue_fetches = [p \in Procs |-> 0]
  /\ field_fetches = [p \in Procs |-> 0]
  /\ found = [p \in Procs |-> "absent"]
  /\ save_outcome = [p \in Procs |-> "none"]
  /\ probe \in {[op |-> "search_issues", issues |-> is, summaries |-> su,
                 changelogs |-> cl, done |-> FALSE,
                 response |-> [code |-> 0, error |-> "", tickets |-> <<>>],
                 summary_fetches |-> [k \in ReferencedKeys |-> 0],
                 changelog_fetches |-> [i \in 1..MaxResults |-> 0]] :
                  is \in UpstreamResults, su \in SummaryAnswerSets,
                  cl \in [1..MaxResults -> ChangelogAnswers]}

\* The response of search_issues when it fails with an error.
SearchError(code, error) ==
  /\ probe' = [probe EXCEPT !.done = TRUE,
                 !.response = [code |-> code, error |-> error, tickets |-> <<>>]]

\* server.py search_issues() for a POST with a JQL string.  fields_up says
\* whether the tracker answers the bulk fetch of the field definitions,
\* search_up whether jira_client.search_issues answers; probe.issues is what
\* it answers with, probe.summaries gives, per key, the answer of the
\* summary fetch and probe.changelogs, per position of the result, the
\* answer of the changelog fetch.  The step records the response and the
\* number of summary fetches per key and of changelog fetches per position.
SearchIssues(fields_up, search_up) ==
  /\ probe.op = "search_issues" /\ ~probe.done
  /\ LET jira == [client |-> jira_client, fields_up |-> fields_up, fields |-> tracker_fields]
     IN  IF ~jira_client
         THEN /\ SearchError(400, "JIRA not configured")
              /\ UNCHANGED custom_field_cache
         ELSE
         \E est \in {get_estimation_field_id(custom_field_cache, jira_config, jira)} :
         \E el \in {get_custom_field_id(est.cfc, "Epic Link", jira)} :
         \E pl \in {get_custom_field_id(el.cfc, "Parent Link", jira)} :
         \E spr \in {get_sprint_field_id(pl.cfc, jira_config, jira)} :
           /\ custom_field_cache' = spr.cfc
           /\ IF ~search_up THEN SearchError(500, "search failed")
              ELSE
              \E parsed \in {ParseAll(probe.issues, est.value, spr.value, el.value, pl.value)} :
                IF parsed.raised THEN SearchError(500, "AttributeError")
                ELSE
                \E tickets \in {parsed.tickets} :
                \E epic_keys \in {EpicKeysOf(tickets)} :
                \E parent_keys \in {ParentKeysOf(tickets)} :
                \E epic_summaries \in {EpicSummaries(epic_keys, probe.summaries)} :
                \E parents \in {ParentSummaries(parent_keys, epic_summaries, probe.summaries)} :
                \E enriched \in {[i \in 1..Len(tickets) |->
                                    Enrich(tickets[i], epic_summaries, parents.names)]} :
                  probe' = [probe EXCEPT
                    !.done = TRUE,
                    !.response =
                       [code |-> 200, error |-> "",
                        tickets |-> [i \in 1..Len(tickets) |->
                                       IF InProgress(enriched[i])
                                       THEN Backfill(enriched[i], probe.changelogs[i])
                                       ELSE enriched[i]]],
                    !.summary_fetches =
                       [k \in ReferencedKeys |->
                          (IF k \in epic_keys THEN 1 ELSE 0)
                            + (IF k \in parents.fetched THEN 1 ELSE 0)],
                    !.changelog_fetches =
                       [i \in 1..MaxResults |->
                          IF i <= Len(tickets) /\ InProgress(enriched[i]) THEN 1 ELSE 0]]
  /\ ResolveFrame

NextSearch == \E fields_up, search_up \in BOOLEAN : SearchIssues(fields_up, search_up)

SpecSearch == InitSearch /\ [][NextSearch]_vars

\* ================================================================ claims

TTL == CACHE_EXPIRY_HOURS * TicksPerHour

\* The instant a stored timestamp names.
InstantOf(iso) == iso.wall - TzOffsetHours(iso.tz) * TicksPerHour

Hit(p) == pc[p] = "done" /\ result[p]["_cache_hit"] = TRUE
Miss(p) == pc[p] = "done" /\ result[p]["_cache_hit"] = FALSE

\* C1: a call made while the cache holds a fresh entry for its key returns
\* with _cache_hit = true, having made no issue fetch, no field-definition
\* fetch and no write of cache.json.
C1_FreshHitNoUpstream ==
  \A p \in Procs :
    (pc[p] # "idle" /\ found[p] = "fresh") =>
      /\ Hit(p)
      /\ issue_fetches[p] = 0
      /\ field_fetches[p] = 0
      /\ save_outcome[p] = "none"

C1_Witness ==
  \E p \in Procs :
    /\ Hit(p)
    /\ found[p] = "fresh"
    /\ now > InstantOf(cache_file[ticket_key[p]].cached_at)

C3_FailedFetchLeavesCache ==
  \A p \in Procs :
    pc[p] = "failed" =>
      /\ DOMAIN result[p] = {"error"}
      /\ save_outcome[p] = "none"
      /\ load_cache = cache[p]
      /\ found[p] = "absent" => ticket_key[p] \notin DOMAIN load_cache
      /\ found[p] = "stale" =>
           /\ ticket_key[p] \in DOMAIN load_cache
           /\ now - InstantOf(load_cache[ticket_key[p]].cached_at) >= TTL

C3_Witness ==
  \E p \in Procs :
    /\ pc[p] = "failed"
    /\ found[p] = "stale"
    /\ jira_client
    /\ Len(cache_file[ticket_key[p]].data.changes) > 0

\* C5: a call that hits a fresh entry leaves cache.json as it was, whatever
\* the window and however often it is made, and leaves the record it loaded
\* whole, also when the projection it returns holds fewer entries.
C5_HitLeavesEntry ==
  [][\A p \in Procs :
       (pc'[p] = "done" /\ found'[p] = "fresh") =>
         /\ cache_file' = cache_file
         /\ file_ok' = file_ok
         /\ cache'[p][ticket_key'[p]] = cache_file[ticket_key'[p]]]_vars

C5_Witness ==
  \E p \in Procs :
    /\ Hit(p)
    /\ found[p] = "fresh"
    /\ Len(result[p].changes) < Len(cache_file[ticket_key[p]].data.changes)
    /\ Len(result[p].comments) < Len(cache_file[ticket_key[p]].data.comments)

\* The entries of a sequence dated at or after the instant cutoff.
Since(entries, cutoff) ==
  LET Kept(e) == InstantOf(e.date_iso) >= cutoff
  IN  SelectSeq(entries, Kept)

\* The clock reading at which a call that missed stored its record.
StoredAt(p) == InstantOf(cache[p][ticket_key[p]].cached_at)

\* A first call for an absent key with a window of 7 days has returned.
FirstCallDone(p) == Miss(p) /\ found[p] = "absent" /\ days[p] = 7

\* The step is a second call by p for the same key and window, made within
\* the TTL of the first.
SecondCallStep(p) ==
  /\ FirstCallDone(p)
  /\ ticket_key'[p] = ticket_key[p]
  /\ days'[p] = days[p]
  /\ pc'[p] # pc[p] \/ result'[p] # result[p]
  /\ now - StoredAt(p) < TTL

\* C6: once two calls on different keys that both missed and both fetched
\* and saved successfully have completed, cache.json holds an entry for each
\* of the two keys, and the entries of other keys the calls loaded are still
\* there.
C6_NoLostWrite ==
  (/\ Miss(1) /\ Miss(2)
   /\ ticket_key[1] # ticket_key[2]
   /\ save_outcome[1] = "ok" /\ save_outcome[2] = "ok") =>
    /\ file_ok
    /\ ticket_key[1] \in DOMAIN cache_file
    /\ ticket_key[2] \in DOMAIN cache_file
    /\ \A p \in Procs : \A k \in DOMAIN cache[p] \ {ticket_key[p]} :
         k \in DOMAIN cache_file

C4_FreshIffYoungerThanTTL ==
  (probe.op = "is_cache_fresh" /\ probe.done) =>
    (probe.out <=>
       /\ "cached_at" \in DOMAIN probe.cached_data
       /\ probe.at - InstantOf(probe.cached_data.cached_at) < TTL)

\* An entry aged exactly the TTL has been found stale.
C4_Witness ==
  /\ probe.op = "is_cache_fresh" /\ probe.done
  /\ "cached_at" \in DOMAIN probe.cached_data
  /\ probe.at - InstantOf(probe.cached_data.cached_at) = TTL
  /\ ~probe.out

\* C8: the projection's changes and comments are the input's entries dated
\* at or after now minus days, in their order, one dated exactly at the
\* cutoff included; every other field is the input's, and the input record
\* is left as it was.
C8_ProjectionIsSubsequence ==
  (probe.op = "project" /\ probe.n >= 1) =>
    LET cutoff == probe.t1 - probe.w1 * TicksPerDay
    IN  /\ probe.out1.changes = Since(probe.rec.changes, cutoff)
        /\ probe.out1.comments = Since(probe.rec.comments, cutoff)
        /\ DOMAIN probe.out1 = DOMAIN probe.rec
        /\ \A k \in DOMAIN probe.rec \ {"changes", "comments"} :
             probe.out1[k] = probe.rec[k]
        /\ probe.arg1 = probe.rec

\* A projection that keeps an entry dated exactly at the cutoff, drops an
\* older one, and keeps comments that are not next to each other.
C8_Witness ==
  /\ probe.op = "project" /\ probe.n >= 1
  /\ \E i \in DOMAIN probe.out1.changes :
       InstantOf(probe.out1.changes[i].date_iso) = probe.t1 - probe.w1 * TicksPerDay
  /\ Len(probe.out1.changes) < Len(probe.rec.changes)
  /\ Len(probe.out1.comments) = 2
  /\ Len(probe.rec.comments) = 3
  /\ probe.out1.comments[1] = probe.rec.comments[1]
  /\ probe.out1.comments[2] = probe.rec.comments[3]

RECURSIVE IsSubseq(_, _)
\* a is b with some entries left out.
IsSubseq(a, b) ==
  IF a = <<>> THEN TRUE
  ELSE IF b = <<>> THEN FALSE
  ELSE IF Head(a) = Head(b) THEN IsSubseq(Tail(a), Tail(b))
  ELSE IsSubseq(a, Tail(b))

\* C9: of two projections of one record made at the same clock reading, the
\* one with the smaller window has changes and comments that are
\* subsequences of the other's, so the larger window never yields fewer.
C9_ProjectionMonotonic ==
  (probe.op = "project" /\ probe.n = 2 /\ probe.kind2 = "other"
     /\ probe.t1 = probe.t2 /\ probe.w1 < probe.w2) =>
    /\ IsSubseq(probe.out1.changes, probe.out2.changes)
    /\ IsSubseq(probe.out1.comments, probe.out2.comments)
    /\ Len(probe.out1.changes) <= Len(probe.out2.changes)
    /\ Len(probe.out1.comments) <= Len(probe.out2.comments)

C9_Witness ==
  /\ probe.op = "project" /\ probe.n = 2 /\ probe.kind2 = "other"
  /\ probe.t1 = probe.t2 /\ probe.w1 < probe.w2
  /\ 0 < Len(probe.out1.changes)
  /\ Len(probe.out1.changes) < Len(probe.out2.changes)
  /\ Len(probe.out1.comments) < Len(probe.out2.comments)

\* C10 as stated: a projection projected again with the same window is the
\* projection itself, and with the same or a larger window it has the same
\* changes and comments.
C10_AsStated ==
  (probe.op = "project" /\ probe.n = 2 /\ probe.kind2 = "again"
     /\ probe.w2 >= probe.w1) =>
    /\ probe.out2.changes = probe.out1.changes
    /\ probe.out2.comments = probe.out1.comments
    /\ probe.w2 = probe.w1 => probe.out2 = probe.out1

\* C10 amended: the same, when the second projection reads the same current
\* time as the first.
C10_IdempotentAtSameTime ==
  (probe.op = "project" /\ probe.n = 2 /\ probe.kind2 = "again"
     /\ probe.w2 >= probe.w1 /\ probe.t2 = probe.t1) =>
    /\ probe.out2.changes = probe.out1.changes
    /\ probe.out2.comments = probe.out1.comments
    /\ probe.w2 = probe.w1 => probe.out2 = probe.out1

C10_Witness ==
  /\ probe.op = "project" /\ probe.n = 2 /\ probe.kind2 = "again"
  /\ probe.w2 = probe.w1 /\ probe.t2 = probe.t1
  /\ 0 < Len(probe.out1.changes)
  /\ Len(probe.out1.changes) < Len(probe.rec.changes)
  /\ probe.out2 = probe.out1

\* The history events and the comments of a raw issue, as the tracker sent
\* them.
Histories(raw) ==
  IF "changelog" \in DOMAIN raw /\ "histories" \in DOMAIN raw.changelog
  THEN raw.changelog.histories ELSE <<>>

UpstreamComments(raw) ==
  IF "comment" \in DOMAIN raw.fields /\ "comments" \in DOMAIN raw.fields.comment
  THEN raw.fields.comment.comments ELSE <<>>

HasTime(x) == "created" \in DOMAIN x

RECURSIVE ChangedFields(_, _)
\* The changed fields of the events hs, event by event; with timed, only of
\* the events that carry a creation time.
ChangedFields(hs, timed) ==
  IF hs = <<>> THEN <<>>
  ELSE LET h == Head(hs)
           items == IF "items" \in DOMAIN h THEN h.items ELSE <<>>
       IN  (IF timed /\ ~HasTime(h) THEN <<>>
            ELSE [i \in 1..Len(items) |->
                    IF "field" \in DOMAIN items[i] THEN items[i].field ELSE ""])
           \o ChangedFields(Tail(hs), timed)

RECURSIVE ChangeInstants(_)
\* The instants of the changes of the events that carry a creation time.
ChangeInstants(hs) ==
  IF hs = <<>> THEN <<>>
  ELSE LET h == Head(hs)
           items == IF "items" \in DOMAIN h THEN h.items ELSE <<>>
       IN  (IF ~HasTime(h) THEN <<>>
            ELSE [i \in 1..Len(items) |-> InstantOf(h.created)])
           \o ChangeInstants(Tail(hs))

Bodies(cs) == [i \in 1..Len(cs) |-> IF "body" \in DOMAIN cs[i] THEN cs[i].body ELSE ""]

\* The step in which request p stores its record and save_cache writes it.
StoreStep(p) == pc[p] = "storing" /\ pc'[p] = "done" /\ save_outcome'[p] = "ok"

C12_EntryStaysUntilRefetched ==
  [][\A k \in DOMAIN load_cache :
       \/ k \in DOMAIN load_cache' /\ load_cache'[k] = load_cache[k]
       \/ \E p \in Procs :
            pc[p] = "storing" /\ pc'[p] = "done" /\ ticket_key[p] = k]_vars

\* C13: when two calls refresh the same key at the same time and both fetch
\* and save without error, the save that ends last leaves cache.json holding
\* for the key exactly the {cached_at, data} pair that call built (the last
\* save wins, whole), and each caller is returned the projection of the
\* record it fetched itself.
C13_LastWriterWins ==
  [][\A p \in Procs :
       (/\ pc[p] = "storing" /\ pc'[p] = "done"
        /\ \A q \in Procs : ticket_key[q] = ticket_key[p] /\ save_outcome'[q] = "ok") =>
         /\ file_ok'
         /\ ticket_key[p] \in DOMAIN cache_file'
         /\ cache_file'[ticket_key[p]] = cache[p][ticket_key[p]]
         /\ cache_file'[ticket_key[p]].data = ticket_details[p]
         /\ result'[p].changes =
              Since(ticket_details[p].changes, now - days[p] * TicksPerDay)
         /\ result'[p].comments =
              Since(ticket_details[p].comments, now - days[p] * TicksPerDay)]_vars

\* C14: a name the field map holds keeps its id in every later state and is
\* never removed.
C14_EntriesImmutable ==
  [][\A name \in DOMAIN custom_field_cache :
       /\ name \in DOMAIN custom_field_cache'
       /\ custom_field_cache'[name] = custom_field_cache[name]]_vars

\* The id the tracker's definitions give a name: that of the last custom
\* definition whose name is the same up to letter case, if there is one.
DefinedId(name) ==
  LET ix == {i \in DOMAIN tracker_fields :
               tracker_fields[i].custom /\ lower(tracker_fields[i].name) = lower(name)}
  IN  IF ix = {} THEN PyNone
      ELSE tracker_fields[CHOOSE i \in ix : \A j \in ix : j <= i].id

\* C15: a bulk fetch that fails leaves the field map empty and the call
\* returns None; every call that finds the map empty fetches again; the call
\* whose fetch succeeds fills the map and returns what the definitions give.
C15_FailureNotCached ==
  [][\A p \in Procs :
       /\ (pc[p] = "fetching_fields" /\ pc'[p] = "returning") =>
            custom_field_cache' = <<>> /\ field_fetches'[p] = 1
       /\ (pc[p] = "returning" /\ custom_field_cache = <<>>) =>
            pc'[p] = "done" /\ probe'.value[p] = PyNone
       /\ (pc[p] \in {"idle", "done"} /\ jira_client /\ custom_field_cache = <<>>
             /\ (\/ pc'[p] # pc[p]
                 \/ probe'.field_name[p] # probe.field_name[p]
                 \/ probe'.value[p] # probe.value[p])) =>
            pc'[p] = "fetching_fields"
       /\ (pc[p] = "fetching_fields" /\ pc'[p] = "populating") =>
            field_fetches'[p] = 1
       /\ (pc[p] = "populating" /\ pc'[p] = "returning") =>
            \A name \in FieldNames :
              DictGet(custom_field_cache', lower(name)) = DefinedId(name)
       /\ (pc[p] = "returning" /\ custom_field_cache # <<>>) =>
            probe'.value[p] = DefinedId(probe.field_name[p])]_vars

\* After a failed bulk fetch, a later call has fetched again and resolved
\* its name.
C15_Witness ==
  /\ probe.op = "get_custom_field_id"
  /\ probe.failures >= 1
  /\ pc[1] = "done" /\ field_fetches[1] = 1
  /\ probe.value[1] # PyNone
  /\ custom_field_cache # <<>>

\* The names a resolver tries, in order: the override when one is set, then
\* the fallback names.
TriedNames(override, names) == (IF override \in {"", PyNone} THEN <<>> ELSE <<override>>) \o names

\* The id of the first of the names order that the tracker's custom
\* definitions give an id, None when they give none.
FirstDefined(order) ==
  LET ix == {i \in DOMAIN order : DefinedId(order[i]) # PyNone}
  IN  IF ix = {} THEN PyNone
      ELSE DefinedId(order[CHOOSE i \in ix : \A j \in ix : i <= j])

\* C16: get_estimation_field_id and get_sprint_field_id return the id of the
\* override name when it resolves, otherwise the id of the first fallback
\* name, in the fixed order, that resolves, and None when no name resolves
\* (no client, or an empty map with the bulk fetch failing, or no such
\* custom field).
C16_OverrideThenFallbackOrder ==
  (probe.op = "resolve" /\ probe.called # "none") =>
    LET order == IF probe.called = "estimation"
                 THEN TriedNames(jira_config.estimation_field,
                        <<"Story point estimate", "Story Points", "Points", "Estimate",
                          "Story points", "Effort", "T-Shirt Size", "Size">>)
                 ELSE TriedNames(jira_config.sprint_field,
                        <<"Sprint", "Sprints", "Active Sprint", "Active Sprints">>)
        reachable == jira_client /\ (probe.before # <<>> \/ probe.fields_up)
    IN  probe.value = IF reachable THEN FirstDefined(order) ELSE PyNone

\* With no override and a tracker holding "Story Points" but no "Story point
\* estimate", get_estimation_field_id has returned the id of "Story Points".
C16_Witness ==
  /\ probe.op = "resolve" /\ probe.called = "estimation"
  /\ jira_config.estimation_field = ""
  /\ \E i \in DOMAIN tracker_fields : tracker_fields[i].name = "Story Points"
  /\ \A i \in DOMAIN tracker_fields : tracker_fields[i].name # "Story point estimate"
  /\ probe.value = "customfield_10016"

\* The tracker's definitions marked custom.
CustomIx == {i \in DOMAIN tracker_fields : tracker_fields[i].custom}

\* Every spelling among the names asked for that differs from name only in
\* letter case resolves, on the map cfc, to the id v.
SpellingsAgree(cfc, name, v) ==
  \A other \in FieldNames :
    lower(other) = lower(name) =>
      get_custom_field_id(cfc, other,
        [client |-> jira_client, fields_up |-> TRUE, fields |-> tracker_fields]).value = v

\* Those of them that have a name and an id.
NamedCustomIx ==
  {i \in CustomIx : tracker_fields[i].name # "" /\ tracker_fields[i].id # ""}

\* C17 as stated: a call that starts on the empty map and whose bulk fetch
\* answers makes one bulk fetch and leaves the map holding every definition
\* marked custom, and no other, under its lower-cased name; it returns the
\* id under the lower-cased name, the same for every spelling.
C17_AsStated ==
  [][\A p \in Procs :
       /\ (pc[p] = "populating" /\ pc'[p] = "returning") =>
            /\ field_fetches'[p] = 1
            /\ DOMAIN custom_field_cache' =
                 {lower(tracker_fields[i].name) : i \in CustomIx}
            /\ \A i \in CustomIx :
                 custom_field_cache'[lower(tracker_fields[i].name)] = tracker_fields[i].id
       /\ (pc[p] = "returning" /\ field_fetches[p] = 1 /\ custom_field_cache # <<>>) =>
            /\ field_fetches'[p] = 1
            /\ probe'.value[p] = DictGet(custom_field_cache, lower(probe.field_name[p]))
            /\ SpellingsAgree(custom_field_cache, probe.field_name[p], probe'.value[p])]_vars

\* C17 amended: the same, the map holding, for the definitions marked custom
\* that have a name and an id, under each lower-cased name the id of the
\* last one that carries it.
C17_OneFetchCustomOnly ==
  [][\A p \in Procs :
       /\ (pc[p] = "populating" /\ pc'[p] = "returning") =>
            /\ field_fetches'[p] = 1
            /\ DOMAIN custom_field_cache' =
                 {lower(tracker_fields[i].name) : i \in NamedCustomIx}
            /\ \A name \in DOMAIN custom_field_cache' :
                 \E i \in NamedCustomIx :
                   /\ lower(tracker_fields[i].name) = name
                   /\ custom_field_cache'[name] = tracker_fields[i].id
                   /\ \A j \in NamedCustomIx :
                        lower(tracker_fields[j].name) = name => j <= i
       /\ (pc[p] = "returning" /\ field_fetches[p] = 1 /\ custom_field_cache # <<>>) =>
            /\ field_fetches'[p] = 1
            /\ probe'.value[p] = DictGet(custom_field_cache, lower(probe.field_name[p]))
            /\ SpellingsAgree(custom_field_cache, probe.field_name[p], probe'.value[p])]_vars

\* A call for "Story Points" on a tracker that also holds fields not marked
\* custom has fetched once, filled the map with the custom ones under their
\* lower-cased names, and returned the id.
C17_Witness ==
  /\ probe.op = "get_custom_field_id"
  /\ pc[1] = "done" /\ field_fetches[1] = 1
  /\ probe.field_name[1] = "Story Points"
  /\ probe.value[1] = "customfield_10016"
  /\ \E i \in DOMAIN tracker_fields : ~tracker_fields[i].custom
  /\ DOMAIN custom_field_cache = {"story points", "sprint"}

\* C18: parse_issue turns a whole float into the integer, leaves any other
\* number as it is, uses a string verbatim, gives for a dict the value under
\* value whenever that key is present and otherwise the one under name, and
\* gives any other object's display string.
C18_EstimationPolicy ==
  (probe.op = "estimation" /\ probe.done) =>
    LET v == probe.estimation_value
    IN  probe.story_points =
          CASE v.type = "none"  -> EstNone
            [] v.type = "int"   -> v
            [] v.type = "float" -> IF \E n \in 0..MaxTwice : v.twice = 2 * n
                                   THEN [type |-> "int", int |-> v.twice \div 2]
                                   ELSE v
            [] v.type = "str"   -> v
            [] v.type = "dict"  -> IF "value" \in DOMAIN v.dict THEN v.dict.value
                                   ELSE IF "name" \in DOMAIN v.dict THEN v.dict.name
                                   ELSE EstNone
            [] OTHER            -> [type |-> "str", str |-> v.repr]

\* Twice the number a numeric value stands for.
TwiceOf(v) == IF v.type = "int" THEN 2 * v.int ELSE v.twice

\* Python's ==: two numbers are equal when they are the same number, other
\* values when they are the same value.
PyEq(a, b) ==
  IF a.type \in {"int", "float"} /\ b.type \in {"int", "float"}
  THEN TwiceOf(a) = TwiceOf(b)
  ELSE a = b

\* C19: for every estimation value of the tracker that is a number, a string
\* or a dict with a value or name key, the estimation of the record get_cached_ticket_details builds and stores equals the storyPoints
\* parse_issue gives for that value.
C19_CachedEstimationNormalized ==
  (/\ probe.op = "estimation" /\ probe.done
   /\ \/ probe.estimation_value.type \in {"int", "float", "str"}
      \/ /\ probe.estimation_value.type = "dict"
         /\ {"value", "name"} \cap DOMAIN probe.estimation_value.dict # {}) =>
    PyEq(probe.estimation, probe.story_points)

\* C20: a call makes at most one issue fetch; when the fetch fails the call
\* ends with the error, having made that one attempt; the next call for the
\* same key goes to the fetch again, and makes one attempt of its own.
C20_NoRetry ==
  [][\A p \in Procs :
       /\ issue_fetches'[p] <= 1
       /\ (pc[p] = "fetching" /\ pc'[p] = "failed") =>
            /\ "error" \in DOMAIN result'[p]
            /\ issue_fetches'[p] = IF jira_client THEN 1 ELSE 0
       /\ (pc[p] = "failed" /\ pc'[p] # "failed" /\ ticket_key'[p] = ticket_key[p]) =>
            pc'[p] = "fetching" /\ issue_fetches'[p] = 0
       /\ (pc[p] = "fetching" /\ pc'[p] # "fetching" /\ jira_client) =>
            issue_fetches'[p] = 1]_vars

\* A call whose one fetch attempt failed has ended with the error.
C20_Witness ==
  \E p \in Procs :
    /\ pc[p] = "failed" /\ jira_client
    /\ issue_fetches[p] = 1
    /\ "error" \in DOMAIN result[p]
    /\ found[p] = "stale"

\* An optional part of the raw issue that is absent or None.
Missing(obj, name) == ~IsSet(GetAttr(obj, name, NoneObj))

\* C21: parse_issue never raises on a raw issue in which optional parts are
\* absent (status, assignee, reporter, priority, issue type, parent or its
\* fields, a link's type or its issues, subtask fields, resolution, changelog
\* or histories, custom fields); it returns a record in which each affected
\* field has its default.
C21_MissingPartsDefault ==
  probe.op = "parse_issue" /\ probe.done =>
    /\ ~probe.raised
    /\ LET f == probe.issue.fields
           t == probe.ticket
       IN  /\ Missing(f, "status") => t.status = "Unknown"
           /\ Missing(f, "assignee") => t.assignee = "Unassigned"
           /\ Missing(f, "reporter") => t.reporter = "Unknown"
           /\ Missing(f, "priority") => t.priority = "None"
           /\ Missing(f, "resolution") => t.resolution = PyNone
           /\ Missing(f, "issuelinks") => t.issueLinks = <<>>
           /\ Missing(f, "subtasks") => t.subtasks = <<>>
           /\ Missing(probe.issue, "changelog") => ~IsSet(t.statusChangeDate)
           /\ Missing(f, "parent") /\ ~HasAttr(f, "customfield_10018")
                => t.parentKey = PyNone
           /\ ~HasAttr(f, "customfield_10016") => t.storyPoints = EstNone
           /\ ~HasAttr(f, "customfield_10020") => t.sprint = PyNone

\* Apart from a link without a type, no absent part makes the call raise, and
\* the defaults are in place.
C21_RaisesOnlyOnUntypedLink ==
  probe.op = "parse_issue" /\ probe.done =>
    /\ probe.raised <=>
         \E i \in 1..Len(GetAttr(probe.issue.fields, "issuelinks", <<>>)) :
            LinkRaises(probe.issue.fields.issuelinks[i])
    /\ probe.raised \/
       LET f == probe.issue.fields
           t == probe.ticket
       IN  /\ Missing(f, "status") => t.status = "Unknown" /\ t.statusCategory = "other"
           /\ Missing(f, "assignee") => t.assignee = "Unassigned"
           /\ Missing(f, "reporter") => t.reporter = "Unknown"
           /\ Missing(f, "priority") => t.priority = "None"
           /\ Missing(f, "issuetype") => t.type = "Task"
           /\ Missing(f, "resolution") => t.resolution = PyNone
           /\ Missing(f, "issuelinks") => t.issueLinks = <<>>
           /\ Missing(f, "subtasks") => t.subtasks = <<>>
           /\ Missing(probe.issue, "changelog") => ~IsSet(t.statusChangeDate)
           /\ Missing(f, "parent") /\ ~HasAttr(f, "customfield_10018")
                => t.parentKey = PyNone
           /\ ~HasAttr(f, "customfield_10016") => t.storyPoints = EstNone
           /\ ~HasAttr(f, "customfield_10020") => t.sprint = PyNone

\* What the raw issue of the call holds for the hierarchy: the native parent,
\* its key, its name (the summary, else the key), whether its issue type is
\* an epic in any letter case, and the values of the Epic Link and Parent
\* Link fields under the ids the tracker gave in the call.
ParentOf(f) == GetAttr(f, "parent", NoneObj)
ParentKeyOf(f) == GetAttr(ParentOf(f), "key", PyNone)
ParentNameOf(f) ==
  GetAttr(GetAttr(ParentOf(f), "fields", NoneObj), "summary", ParentKeyOf(f))
ParentIsEpic(f) ==
  lower(AttrOr(GetAttr(GetAttr(ParentOf(f), "fields", NoneObj), "issuetype", NoneObj),
               "name", "")) = "epic"
LinkFieldValue(f, name) ==
  LET id == DictGet(custom_field_cache, name)
  IN  IF Truthy(id) THEN GetAttr(f, id, PyNone) ELSE PyNone

\* C22 as stated: the epic rule for every native parent whose type is epic.
C22_AsStated ==
  probe.op = "parse_issue" /\ probe.done /\ ~probe.raised =>
    LET f == probe.issue.fields
        t == probe.ticket
    IN  /\ Truthy(ParentKeyOf(f)) => t.parentKey = ParentKeyOf(f)
        /\ IsSet(ParentOf(f)) /\ ParentIsEpic(f)
             => t.epicKey = ParentKeyOf(f) /\ t.epicName = ParentNameOf(f)

\* C22: the hierarchy sources are tried in the order native parent, Epic
\* Link, Parent Link and the first that gives a key wins.  A native parent
\* with a key gives parentKey and parentName whatever the Parent Link field
\* holds; a native parent with a key whose type is epic in any letter case
\* gives epicKey and epicName whatever the Epic Link field holds; otherwise
\* the Epic Link value becomes both epicKey and epicName, and without a
\* native parent key the Parent Link value becomes both parentKey and
\* parentName.
C22_FirstSuccessWins ==
  probe.op = "parse_issue" /\ probe.done /\ ~probe.raised =>
    LET f == probe.issue.fields
        t == probe.ticket
        epic_link == LinkFieldValue(f, "epic link")
        parent_link == LinkFieldValue(f, "parent link")
        native_epic == Truthy(ParentKeyOf(f)) /\ ParentIsEpic(f)
    IN  /\ Truthy(ParentKeyOf(f))
             => t.parentKey = ParentKeyOf(f) /\ t.parentName = ParentNameOf(f)
        /\ native_epic
             => t.epicKey = ParentKeyOf(f) /\ t.epicName = ParentNameOf(f)
        /\ ~native_epic /\ Truthy(epic_link)
             => t.epicKey = epic_link /\ t.epicName = epic_link
        /\ ~native_epic /\ ~Truthy(epic_link) => t.epicKey = PyNone
        /\ ~Truthy(ParentKeyOf(f)) /\ Truthy(parent_link)
             => t.parentKey = parent_link /\ t.parentName = parent_link
        /\ ~Truthy(ParentKeyOf(f)) /\ ~Truthy(parent_link) => t.parentKey = PyNone

\* A native epic parent with a key wins over Epic Link and Parent Link fields
\* that both hold a value under ids the tracker gave.
C22_Witness ==
  /\ probe.op = "parse_issue" /\ probe.done /\ ~probe.raised
  /\ Truthy(ParentKeyOf(probe.issue.fields)) /\ ParentIsEpic(probe.issue.fields)
  /\ LinkFieldValue(probe.issue.fields, "epic link") = "E2"
  /\ LinkFieldValue(probe.issue.fields, "parent link") = "P2"
  /\ probe.ticket.epicKey = "E1" /\ probe.ticket.parentKey = "E1"

\* The change history of the raw issue of the call, oldest first, and the
\* positions of its events that change the status.
ParsedHistories ==
  GetAttr(GetAttr(probe.issue, "changelog", NoneObj), "histories", <<>>)
StatusEvents(hs) ==
  {i \in 1..Len(hs) :
     \E j \in 1..Len(GetAttr(hs[i], "items", <<>>)) :
        HasAttr(hs[i].items[j], "field") /\ hs[i].items[j].field = "status"}
Newest(S) == CHOOSE i \in S : \A j \in S : j <= i

\* C23 as stated: the timestamp of the newest event that changes the status,
\* whether or not that event carries one.
C23_AsStated ==
  probe.op = "parse_issue" /\ probe.done /\ ~probe.raised =>
    LET hs == ParsedHistories
        S == StatusEvents(hs)
    IN  probe.ticket.statusChangeDate =
          IF S = {} THEN NoneObj ELSE GetAttr(hs[Newest(S)], "created", NoneObj)

\* C23: statusChangeDate is the timestamp of the newest event of the change
\* history that changes the status and carries a timestamp; events without
\* a status item, and status events without a timestamp, are passed over,
\* and the result is none when no such event exists.
C23_NewestTimedStatusChange ==
  probe.op = "parse_issue" /\ probe.done /\ ~probe.raised =>
    LET hs == ParsedHistories
        S == {i \in StatusEvents(hs) : HasAttr(hs[i], "created")}
    IN  probe.ticket.statusChangeDate =
          IF S = {} THEN NoneObj ELSE hs[Newest(S)].created

\* Two events change the status and a newer event does not: the date is that
\* of the newer of the two.
C23_Witness ==
  /\ probe.op = "parse_issue" /\ probe.done /\ ~probe.raised
  /\ ParsedHistories = <<HistoryStatusOld, HistoryStatusNew, HistoryOther>>
  /\ probe.ticket.statusChangeDate = HistoryStatusNew.created

\* A search that got its results from the tracker and answered with tickets.
SearchDone == probe.op = "search_issues" /\ probe.done /\ probe.response.code = 200
Tickets == probe.response.tickets
EpicKeySet == {Tickets[i].epicKey : i \in {j \in 1..Len(Tickets) : Tickets[j].epicKey # PyNone}}
ParentKeySet ==
  {Tickets[i].parentKey : i \in {j \in 1..Len(Tickets) : Tickets[j].parentKey # PyNone}}

\* C24: in one search each distinct referenced key is fetched at most once:
\* once per epic key, once per parent key that is not an epic key, never for
\* a parent key that is also an epic key, whose parent name is the epic
\* summary already fetched; the number of summary fetches is the size of the
\* union of the two key sets.
C24_OneFetchPerKey ==
  SearchDone =>
    /\ \A k \in ReferencedKeys :
         probe.summary_fetches[k] = IF k \in EpicKeySet \cup ParentKeySet THEN 1 ELSE 0
    /\ Cardinality({k \in ReferencedKeys : probe.summary_fetches[k] > 0})
         = Cardinality(EpicKeySet \cup ParentKeySet)
    /\ \A i, j \in 1..Len(Tickets) :
         Tickets[i].parentKey # PyNone /\ Tickets[i].parentKey = Tickets[j].epicKey
           => Tickets[i].parentName = Tickets[j].epicName

\* The parent key of one ticket is the epic key of another, and a third key
\* is fetched beside it.
C24_Witness ==
  /\ SearchDone
  /\ \E i, j \in 1..Len(Tickets) :
       /\ i # j
       /\ Tickets[i].parentKey # PyNone
       /\ Tickets[i].parentKey = Tickets[j].epicKey
       /\ Tickets[i].epicKey = PyNone
       /\ probe.summary_fetches[Tickets[i].parentKey] = 1

\* The name the enrichment pass is to give for key k: the fetched summary,
\* the key when the fetch failed.
StatedName(k) ==
  IF probe.summaries[k].up THEN GetAttr(probe.summaries[k], "summary", PyNone) ELSE k

\* C25 as stated: the name is the fetched summary unless the fetch failed.
C25_AsStated ==
  SearchDone =>
    \A i \in 1..Len(Tickets) :
      /\ Tickets[i].epicKey # PyNone => Tickets[i].epicName = StatedName(Tickets[i].epicKey)
      /\ Tickets[i].parentKey # PyNone
           => Tickets[i].parentName = StatedName(Tickets[i].parentKey)

\* C25: whatever subset of the summary fetches fails, a search whose results
\* the tracker delivered returns all of them in upstream order, and every
\* ticket with an epicKey has epicName equal to the fetched summary, or to
\* the key when the fetch failed or the fetched issue carries no summary;
\* likewise parentName for every ticket with a parentKey.
C25_EnrichmentNeverAborts ==
  probe.op = "search_issues" /\ probe.done /\ probe.response.error # "search failed" =>
    /\ probe.response.code = 200
    /\ Len(Tickets) = Len(probe.issues)
    /\ \A i \in 1..Len(Tickets) :
         /\ Tickets[i].key = probe.issues[i].key
         /\ Tickets[i].summary = probe.issues[i].fields.summary
         /\ Tickets[i].epicKey # PyNone =>
              Tickets[i].epicName =
                GetAttr(probe.summaries[Tickets[i].epicKey], "summary", Tickets[i].epicKey)
         /\ Tickets[i].parentKey # PyNone =>
              Tickets[i].parentName =
                GetAttr(probe.summaries[Tickets[i].parentKey], "summary", Tickets[i].parentKey)

\* One summary fetch failed and another succeeded in the same search.
C25_Witness ==
  /\ SearchDone
  /\ \E i, j \in 1..Len(Tickets) :
       /\ Tickets[i].epicKey # PyNone /\ ~probe.summaries[Tickets[i].epicKey].up
       /\ Tickets[i].epicName = Tickets[i].epicKey
       /\ Tickets[j].parentKey # PyNone /\ probe.summaries[Tickets[j].parentKey].up
       /\ Tickets[j].parentName = TrackerSummary(Tickets[j].parentKey)

\* Whether result i is one the backfill is for, read from the raw result.
WantsBackfill(i) ==
  LET status == GetAttr(probe.issues[i].fields, "status", NoneObj)
  IN  \/ GetAttr(GetAttr(status, "statusCategory", NoneObj), "key", "other") = "indeterminate"
      \/ GetAttr(status, "name", "Unknown") \in {"In Review", "Code Review"}

\* C26: exactly the results whose status category is "indeterminate" or
\* whose status name contains "review" in any letter case get one changelog
\* fetch; a failed fetch leaves its ticket without a statusChangeDate, the
\* other tickets get theirs, and the search answers with all tickets.
C26_BackfillPerTicket ==
  probe.op = "search_issues" /\ probe.done /\ probe.response.error # "search failed" =>
    /\ probe.response.code = 200
    /\ Len(Tickets) = Len(probe.issues)
    /\ \A i \in 1..MaxResults :
         probe.changelog_fetches[i] =
           IF i <= Len(Tickets) /\ WantsBackfill(i) THEN 1 ELSE 0
    /\ \A i \in 1..Len(Tickets) :
         /\ WantsBackfill(i) /\ ~probe.changelogs[i].up
              => ~IsSet(Tickets[i].statusChangeDate)
         /\ ~WantsBackfill(i) => ~IsSet(Tickets[i].statusChangeDate)
         /\ WantsBackfill(i) /\ probe.changelogs[i].up
              => Tickets[i].statusChangeDate =
                   LET hs == probe.changelogs[i].issue.changelog.histories
                       S == {n \in StatusEvents(hs) : HasAttr(hs[n], "created")}
                   IN  IF S = {} THEN NoneObj ELSE hs[Newest(S)].created

\* Two tickets are backfilled; the fetch of one fails, the other gets its date.
C26_Witness ==
  /\ SearchDone
  /\ \E i, j \in 1..Len(Tickets) :
       /\ WantsBackfill(i) /\ ~probe.changelogs[i].up
       /\ ~IsSet(Tickets[i].statusChangeDate)
       /\ Tickets[i].status = "Code Review"
       /\ WantsBackfill(j) /\ probe.changelogs[j].up
       /\ Tickets[j].statusChangeDate = HistoryStatusNew.created

\* The step is a call of get_cached_ticket_details by p made when no call of
\* p is under way.
LookupStep(p) == pc[p] \in {"idle", "done", "failed"} /\ ticket_key'[p] \in Keys /\ now' = now

\* The step ends a call of p that missed and fetched: the save and the return.
ReturnStep(p) == pc[p] = "storing" /\ pc'[p] = "done"

\* C27: a failure to read cache.json is not surfaced: the call that meets it
\* loads an empty mapping and treats its key as a miss, whatever the file
\* holds; after a successful fetch it returns the projection of the fetched
\* record, and the mapping a successful save persists holds exactly the
\* fetched key.
C27_ReadFailureIsAMiss ==
  [][/\ LookupStep(1) /\ ~file_ok
          => /\ pc'[1] = "fetching"
             /\ found'[1] = "absent"
             /\ cache'[1] = <<>>
     /\ ReturnStep(1) /\ ~file_ok
          => /\ result'[1] =
                  SetItem(filter_ticket_data_by_date(ticket_details[1], days[1], now).filtered_data,
                          "_cache_hit", FALSE)
             /\ save_outcome'[1] = "ok"
                  => /\ file_ok'
                     /\ DOMAIN cache_file' = {ticket_key[1]}
                     /\ cache_file'[ticket_key[1]].data.key = ticket_key[1]]_vars

\* The unreadable file held fresh entries for K0 and K1; a call for K1 at the
\* same clock reading missed, fetched, and left a file holding K1 alone.
C27_Witness ==
  /\ now = 0
  /\ Miss(1) /\ found[1] = "absent" /\ ticket_key[1] = "K1"
  /\ issue_fetches[1] = 1 /\ save_outcome[1] = "ok"
  /\ file_ok /\ DOMAIN cache_file = {"K1"}

\* C28: a failure to write cache.json is not surfaced: the call returns the
\* projection of the fetched record with _cache_hit = false, the durable
\* mapping is what it was before the call, and the next call for the same
\* key is again a miss that fetches.
C28_WriteFailureLeavesStore ==
  [][/\ ReturnStep(1) /\ save_outcome'[1] \in {"open_failed", "write_failed"}
          => /\ result'[1] =
                  SetItem(filter_ticket_data_by_date(ticket_details[1], days[1], now).filtered_data,
                          "_cache_hit", FALSE)
             /\ load_cache' = load_cache
     /\ LookupStep(1) /\ save_outcome[1] \in {"open_failed", "write_failed"}
          /\ ticket_key'[1] = ticket_key[1]
          => pc'[1] = "fetching"]_vars

\* Whatever way the save fails, the call returns the projection with
\* _cache_hit = false and the next call for the key fetches again; the file
\* is as it was when open raised.
C28_FailedSaveStillAnswers ==
  [][/\ ReturnStep(1) /\ save_outcome'[1] \in {"open_failed", "write_failed"}
          => /\ result'[1] =
                  SetItem(filter_ticket_data_by_date(ticket_details[1], days[1], now).filtered_data,
                          "_cache_hit", FALSE)
             /\ save_outcome'[1] = "open_failed"
                  => cache_file' = cache_file /\ file_ok' = file_ok
     /\ LookupStep(1) /\ save_outcome[1] \in {"open_failed", "write_failed"}
          /\ ticket_key'[1] = ticket_key[1]
          => pc'[1] = "fetching"]_vars

====
